---------------------------- MODULE Spec2Model ----------------------------
(***************************************************************************)
(* Model of zouni's batch file-transfer engine                             *)
(* (platform/linux/fs_ext.rs), its cancellation registries                 *)
(* (platform/gio.rs, platform/win.rs, platform/linux/fs.rs), the           *)
(* recycle-bin matching logic (platform/linux/fs.rs,                       *)
(* platform/windows/fs.rs), the single-call moves and copies of gio.rs,    *)
(* win.rs and linux/fs.rs, and process.rs.                                 *)
(*                                                                         *)
(* The specifications of the module:                                       *)
(*   BatchSpec     - one execute_file_operation batch (driver task,        *)
(*                   message consumer task, progress forwarder, the user)  *)
(*   PauseSpec     - a Copy batch whose user also clicks the pause button  *)
(*   ReleaseSpec   - a Delete or Trash batch while another thread calls    *)
(*                   cancel on the registry                                *)
(*   OverwriteSpec - a Copy or Move batch while another batch writes       *)
(*                   under the same destination                            *)
(*   MeasSpec      - one call of measure_size while entries disappear      *)
(*   RegSpec       - threads calling reserve / cancel / mv / clean_up on   *)
(*                   the process-wide registry                             *)
(*   BinSpec       - undelete / undelete_by_time /                         *)
(*                   delete_from_recycle_bin over a trash listing          *)
(*   BulkSpec      - one call of win mv_bulk                               *)
(*   GioSpec       - one call of gio mv / mv_with_progress                 *)
(*   CopySpec      - one call of linux fs::copy or fs::mv                  *)
(*   ProcSpec      - process::spawn and process::kill                      *)
(***************************************************************************)
EXTENDS Integers, Sequences, FiniteSets, TLC

\* ------------------------------------------------------------------ bounds
\* progress callbacks the native calls of one batch may deliver besides the one
\* report of (total, total) that every copy/move makes when its data is written
MaxExtraEvents == 1

\* clicks on the pause button during one batch
MaxClicks == 3

\* calls of reserve, cancel, a cancellable move or clean_up started in one run
MaxCalls == 3

\* source files of one mv_bulk call, and the size of a file in bytes
MaxFiles == 2

MaxSize == 2

\* the kill calls of a run of spawn and kill
MaxKills == 2

\* ------------------------------------------------------------- path helpers
\* A path is a sequence of names; to.join(from.file_name()) is Join(to, FileName(from)).
FileName(p) == p[Len(p)]

Join(dir, name) == Append(dir, name)

Exists(f, p) == p \in DOMAIN f

IsDir(f, p) == Exists(f, p) /\ f[p].kind = "dir"

NodeAt(f, p) == IF Exists(f, p) THEN <<f[p]>> ELSE <<>>

Children(f, p) == {q \in DOMAIN f : Len(q) = Len(p) + 1 /\ SubSeq(q, 1, Len(p)) = p}

Descendants(f, p) == {q \in DOMAIN f : Len(q) > Len(p) /\ SubSeq(q, 1, Len(p)) = p}

Put(f, p, node) == [q \in DOMAIN f \cup {p} |-> IF q = p THEN node ELSE f[q]]

Remove(f, p) == [q \in DOMAIN f \ {p} |-> f[q]]

RemoveTree(f, p) == [q \in DOMAIN f \ ({p} \cup Descendants(f, p)) |-> f[q]]

DirNode == [kind |-> "dir", content |-> "", size |-> 0]

FileNode(c, n) == [kind |-> "file", content |-> c, size |-> n]

\* every order in which a directory enumeration may hand out the set S
Orders(S) == {s \in [1..Cardinality(S) -> S] : \A i, j \in 1..Cardinality(S) : s[i] = s[j] => i = j}

\* ------------------------------------------------------- the file system used
SrcRoot == <<"a">>

DestRoot == <<"b">>

\* /a/x (1 byte), /a/d/ with /a/d/y (2 bytes) and the empty directory /a/d/s, and /b/
BaseFs ==
    (<<"a">> :> DirNode) @@ (<<"b">> :> DirNode) @@
    (<<"a", "x">> :> FileNode("x", 1)) @@
    (<<"a", "d">> :> DirNode) @@
    (<<"a", "d", "y">> :> FileNode("y", 2)) @@
    (<<"a", "d", "s">> :> DirNode)

\* what may already be in the destination directory
PreExisting ==
    { {}, {<<"b", "x">>}, {<<"b", "d">>, <<"b", "d", "y">>},
      {<<"b", "x">>, <<"b", "d">>, <<"b", "d", "y">>} }

PreNode(p) == IF p = <<"b", "d">> THEN DirNode ELSE FileNode("old", 1)

InitialFs(pre) == [q \in DOMAIN BaseFs \cup pre |-> IF q \in pre THEN PreNode(q) ELSE BaseFs[q]]

SourceLists == { <<<<"a", "x">>>>, <<<<"a", "d">>>>, <<<<"a", "x">>, <<"a", "d">>>>, <<<<"a", "d">>, <<"a", "x">>>> }

Operations == {"Copy", "Move", "Delete", "Trash"}

\* ---------------------------------------------------------------- variables
VARIABLES
    \* --- execute_file_operation (fs_ext.rs)
    operation,        \* FileOperation of the batch
    froms,            \* the sources, in the order given
    fs,               \* the file system: path -> node
    cancelled,        \* cancellable.is_cancelled()
    pc,               \* position of the batch driver task
    idx,              \* main pass: index of the next source
    work,             \* children still to be visited by handle_directory / execute_delete
    needs_confirm,    \* the deferred items (source paths)
    deferred_dest,    \* history: the existing destination that made each item deferred
    replace_all,      \* conflict pass: replace_all
    cidx,             \* conflict pass: index of the next deferred item
    inflight,         \* <<>> or <<the native call the driver is awaiting>>
    tx,               \* the unbounded BatchOpMessage channel (unconsumed messages)
    pstream,          \* progress events emitted by native calls, not yet forwarded
    usage_ch,         \* the bounded(1) DiskUsages channel
    usages,           \* the consumer's DiskUsages
    cpc,              \* position of the message consumer task
    turn,             \* the task the glib main loop is polling: "idle", "consumer" or "forwarder"
    extraEvents,      \* history: progress callbacks counted against MaxExtraEvents
    pendingDeletes,   \* delete_async calls issued and not yet carried out
    prompts,          \* history: indices of the deferred items the confirm dialog was shown for
    replaceAllAt,     \* history: index at which ReplaceAll was chosen (0: never)
    skipAllAt,        \* history: index at which SkipAll was chosen (0: never)
    forced,           \* history: indices of the deferred items transferred with overwrite
    dialogs,          \* history: texts of the error message dialogs raised by the consumer
    started,          \* history: the sources the main pass has started, in order
    failed,           \* history: the native calls whose I/O error the driver received
    interrupted,      \* history: destinations of the transfers that ended with Cancelled
    handled,          \* history: the deferred items prompted for or replaced, in order
    paused,           \* the pause button's "paused" data
    pause_ch,         \* the bounded(1) pause channel
    blocked,          \* the driver waits in pause_rx.recv()
    clicks,           \* history: clicks on the pause button, counted against MaxClicks
    startedPaused     \* history: an item was started while the button showed paused

batchVars == <<operation, froms, fs, cancelled, pc, idx, work, needs_confirm, deferred_dest,
               replace_all, cidx, inflight, tx, pstream, usage_ch, usages, cpc, turn,
               extraEvents, pendingDeletes, prompts, replaceAllAt, skipAllAt, forced,
               dialogs, started, failed, interrupted, handled,
               paused, pause_ch, blocked, clicks, startedPaused>>

\* the registry of tokens
VARIABLES
    platform,       \* which of the three registries this run is about
    UUID,           \* the counter
    registry,       \* CANCELABLES / CANCELLABLES: id -> token
    cancelledToks,  \* the tokens that are cancelled (win: whose value is PROGRESS_CANCEL)
    nextTok,        \* the next token object
    lock,           \* "free" or the thread that holds the Mutex
    poisoned,       \* a thread panicked while it held the Mutex
    th,             \* per thread: where it is and its locals
    calls,          \* calls started so far
    issued,         \* history: ids returned by reserve whose registration has not been removed
    lastCancel,     \* history, per thread: the last cancel call that returned
    lastMv          \* history, per thread: the last cancellable move that returned

regVars == <<platform, UUID, registry, cancelledToks, nextTok, lock, poisoned, th, calls,
             issued, lastCancel, lastMv>>

\* the recycle bin
VARIABLES
    os,         \* which implementation this run is about
    trashed,    \* the entries in the bin
    files,      \* original path -> the object that is there now
    clock,      \* the time a deletion is stamped with
    nextName,   \* the next trash-internal name (also the next content to create)
    last        \* history: the recycle-bin call that has just returned

binVars == <<os, trashed, files, clock, nextName, last>>

\* one call of measure_size (fs_ext.rs 190-203) on a file system that others change
VARIABLES
    entries,    \* the entries passed to measure_size
    disk,       \* the file system when the call starts
    vanishing,  \* the entries that disappear after they were listed, before they are measured
    measured    \* <<>> or <<the Result of the call>>

measVars == <<entries, disk, vanishing, measured>>

\* one call of win mv_bulk (win.rs 80-137)
VARIABLES
    bulk,       \* the call: the sources' sizes, the loop position, what happened so far
    data        \* the ProgressData handed to move_files_progress

bulkVars == <<bulk, data>>

\* one call of gio mv / mv_with_progress (gio.rs 28-71)
VARIABLES
    gfs,        \* the file system the call works on
    gcall       \* the call: its position and locals, and what it was given

gioVars == <<gfs, gcall>>

\* one call of linux fs::copy / fs::mv (linux/fs.rs 226-279, 336-424)
VARIABLES
    cfs,        \* the file system the call works on
    ccall       \* the call: the result channel, the native calls issued, the result

copyVars == <<cfs, ccall>>

\* process::spawn and process::kill (process.rs 51-138)
VARIABLES
    CHILDREN,   \* the table: token -> child
    plock,      \* "free" or the holder of the CHILDREN Mutex
    procs,      \* per token: the spawn call and its child
    kills       \* history: the kill calls that returned

procVars == <<CHILDREN, plock, procs, kills>>

extVars == <<bulkVars, gioVars, copyVars, procVars>>

vars == <<batchVars, regVars, binVars, measVars, extVars>>

\* ------------------------------------------------------------ BatchOpMessage
Msg(t, c, n, r) == [type |-> t, cur |-> c, total |-> n, result |-> r]

Ready == Msg("Ready", 0, 0, "Ok")

Started == Msg("Started", 0, 0, "Ok")

Progress(c, n) == Msg("Progress", c, n, "Ok")

Done(r) == Msg("Done", 0, 0, r)

Finished == Msg("Finished", 0, 0, "Ok")

\* tx.try_send / tx.send: fails (message dropped) once the receiver is gone
Send(q, m) == IF cpc = "closed" THEN q ELSE Append(q, m)

\* ------------------------------------------------------------- measure_size
DiskUsages(ts, tc) == [total_size |-> ts, total_count |-> tc, processed_count |-> 0, processed_size |-> 0]

RECURSIVE MeasureSet(_, _)
\* measure_size over a set of entries: a directory contributes the sum over its
\* children, anything else its apparent size and one file
MeasureSet(f, S) ==
    IF S = {} THEN [size |-> 0, count |-> 0]
    ELSE LET e == CHOOSE x \in S : TRUE
             rest == MeasureSet(f, S \ {e})
             own == IF IsDir(f, e) THEN MeasureSet(f, Children(f, e))
                    ELSE [size |-> f[e].size, count |-> 1]
         IN [size |-> own.size + rest.size, count |-> own.count + rest.count]

measure_size(f, from) ==
    LET m == MeasureSet(f, {from[i] : i \in DOMAIN from})
    IN DiskUsages(m.size, m.count)

RECURSIVE TryMeasure(_, _, _)
\* measure_size with its errors: an entry that is not there when it is looked at is
\* no directory (entry.is_dir() is false), measure_disk_usage_future fails on it and
\* `?` ends the whole measurement with that error
TryMeasure(f, S, late) ==
    IF S = {} THEN [ok |-> TRUE, size |-> 0, count |-> 0]
    ELSE LET e == CHOOSE x \in S : TRUE
             rest == TryMeasure(f, S \ {e}, late)
             own == IF ~Exists(f, e) \/ e \in late THEN [ok |-> FALSE, size |-> 0, count |-> 0]
                    ELSE IF IsDir(f, e) THEN TryMeasure(f, Children(f, e), late)
                    ELSE [ok |-> TRUE, size |-> f[e].size, count |-> 1]
         IN IF own.ok /\ rest.ok
            THEN [ok |-> TRUE, size |-> own.size + rest.size, count |-> own.count + rest.count]
            ELSE [ok |-> FALSE, size |-> 0, count |-> 0]

\* ----------------------------------------------------- items and native calls
Task(k, from, to, parent) == [kind |-> k, from |-> from, to |-> to, parent |-> parent]

\* `doomed`: the token was cancelled before the call was issued, so the first poll
\* of the race (fs_ext.rs 240-243) already finds the cancellation signal ready
NativeOp(k, src, dst, n, force, ci, parent) ==
    [kind |-> k, src |-> src, dst |-> dst, size |-> n, cur |-> 0, reported |-> FALSE,
     stage |-> "running", result |-> "", force |-> force, cidx |-> ci, parent |-> parent,
     doomed |-> cancelled]

\* what starting one item does: the file system, the children queued, the items
\* deferred (with the destination that existed), the native call issued
Eff(f, w, c, d, i) == [fs |-> f, work |-> w, confirm |-> c, cdest |-> d, inflight |-> i]

SizeOf(f, p) == IF Exists(f, p) THEN f[p].size ELSE 0

\* handle_directory: create the destination directory if it is missing, then visit
\* every child (ord: the order of the enumeration) as its own item below to_dr
handle_directory(is_copy, f, from, to, ord) ==
    LET to_dr == Join(to, FileName(from))
        f2 == IF ~Exists(f, to_dr) THEN Put(f, to_dr, DirNode) ELSE f
        parent == IF is_copy THEN <<>> ELSE <<from>>
    IN Eff(f2, [i \in DOMAIN ord |-> Task("entry", ord[i], to_dr, parent)], <<>>, <<>>, <<>>)

\* a copy that overwrites an existing destination at once
EagerCopy(f, from, to, ord) ==
    IF IsDir(f, from) THEN handle_directory(TRUE, f, from, to, ord)
    ELSE Eff(f, <<>>, <<>>, <<>>,
             <<NativeOp("copy", from, Join(to, FileName(from)), SizeOf(f, from),
                        Exists(f, Join(to, FileName(from))), 0, <<>>)>>)

execute_copy(f, from, to, ord) ==
    LET dest_path == Join(to, FileName(from))
    IN IF IsDir(f, from) THEN handle_directory(TRUE, f, from, to, ord)
       ELSE IF Exists(f, dest_path) THEN Eff(f, <<>>, <<from>>, <<dest_path>>, <<>>)
       ELSE Eff(f, <<>>, <<>>, <<>>, <<NativeOp("copy", from, dest_path, SizeOf(f, from), FALSE, 0, <<>>)>>)

execute_move(f, from, to, parent, ord) ==
    LET dest_path == Join(to, FileName(from))
    IN IF IsDir(f, from) THEN handle_directory(FALSE, f, from, to, ord)
       ELSE IF Exists(f, dest_path) THEN Eff(f, <<>>, <<from>>, <<dest_path>>, <<>>)
       ELSE Eff(f, <<>>, <<>>, <<>>, <<NativeOp("move", from, dest_path, SizeOf(f, from), FALSE, 0, parent)>>)

execute_copy_force(f, from, to, ci) ==
    NativeOp("copy", from, Join(to, FileName(from)), SizeOf(f, from), TRUE, ci, <<>>)

execute_move_force(f, from, to, ci) ==
    NativeOp("move", from, Join(to, FileName(from)), SizeOf(f, from), TRUE, ci, <<>>)

\* execute_delete: the children first (each through execute_delete), then the entry itself
execute_delete(f, file_path, ord) ==
    IF IsDir(f, file_path) /\ ord # <<>>
    THEN Eff(f, [i \in DOMAIN ord |-> Task("entry", ord[i], <<>>, <<>>)] \o <<Task("rm", file_path, <<>>, <<>>)>>,
             <<>>, <<>>, <<>>)
    ELSE Eff(f, <<>>, <<>>, <<>>, <<NativeOp("delete", file_path, <<>>, 0, FALSE, 0, <<>>)>>)

delete_future(f, file_path) ==
    Eff(f, <<>>, <<>>, <<>>, <<NativeOp("delete", file_path, <<>>, 0, FALSE, 0, <<>>)>>)

execute_trash(f, file_path) ==
    Eff(f, <<>>, <<>>, <<>>, <<NativeOp("trash", file_path, <<>>, 0, FALSE, 0, <<>>)>>)

\* the match on `operation` of the main pass, and a queued child of a recursion
StartItem(f, t, ord) ==
    IF t.kind = "rm" THEN delete_future(f, t.from)
    ELSE CASE operation = "Copy" -> execute_copy(f, t.from, t.to, ord)
           [] operation = "Move" -> execute_move(f, t.from, t.to, t.parent, ord)
           [] operation = "Delete" -> execute_delete(f, t.from, ord)
           [] operation = "Trash" -> execute_trash(f, t.from)

\* ------------------------------------------------------------------- Init
BatchInit ==
    /\ operation \in Operations
    /\ froms \in SourceLists
    /\ \E pre \in PreExisting :
          /\ operation \in {"Delete", "Trash"} => pre = {}
          /\ fs = InitialFs(pre)
    /\ cancelled = FALSE
    /\ pc = "measure"
    /\ idx = 1
    /\ work = <<>>
    /\ needs_confirm = <<>>
    /\ deferred_dest = <<>>
    /\ replace_all = FALSE
    /\ cidx = 1
    /\ inflight = <<>>
    /\ tx = <<>>
    /\ pstream = <<>>
    /\ usage_ch = <<>>
    /\ usages = DiskUsages(0, 0)
    /\ cpc = "wait_usage"
    /\ turn = "idle"
    /\ extraEvents = 0
    /\ pendingDeletes = {}
    /\ prompts = <<>>
    /\ replaceAllAt = 0
    /\ skipAllAt = 0
    /\ forced = {}
    /\ dialogs = <<>> /\ started = <<>> /\ failed = <<>> /\ interrupted = {}
    /\ handled = <<>>
    /\ paused = FALSE /\ pause_ch = <<>> /\ blocked = FALSE /\ clicks = 0 /\ startedPaused = FALSE

\* ------------------------------------------------------------- scheduling
\* The driver, the consumer and the forwarder are futures spawned on one glib main
\* context (spawn_future_local): a task runs until it has to wait, so the consumer
\* and the forwarder run only while the driver waits for a native call, for the
\* confirm dialog, or has ended, and each takes what is available before it yields.
DriverWaits == inflight # <<>> \/ pc \in {"confirm", "done"} \/ blocked

MainLoopFree == turn = "idle"

\* ---------------------------------------------------------- the batch driver
\* fs_ext.rs 106-110: measure, hand the usages to the consumer, send Ready
Measure ==
    /\ pc = "measure"
    /\ usage_ch' = <<measure_size(fs, froms)>>
    /\ tx' = Send(tx, Ready)
    /\ pc' = "main"
    /\ UNCHANGED <<startedPaused, blocked, pause_ch, clicks, paused, handled, interrupted,
                   failed, started, dialogs, operation, froms, fs, cancelled, idx, work,
                   needs_confirm, deferred_dest, replace_all, cidx, inflight, pstream, usages,
                   cpc, turn, extraEvents, pendingDeletes, prompts, replaceAllAt, skipAllAt,
                   forced>>
    /\ UNCHANGED <<regVars, binVars, measVars, extVars>>

\* the driver takes up the effect of starting one item
Apply(e, rest, q) ==
    /\ fs' = e.fs
    /\ work' = e.work \o rest
    /\ needs_confirm' = needs_confirm \o e.confirm
    /\ deferred_dest' = deferred_dest \o e.cdest
    /\ inflight' = e.inflight
    /\ tx' = q

\* fs_ext.rs 126-131: the match on `operation` starts the source froms[idx]
StartSource(q) ==
    /\ \E ord \in Orders(Children(fs, froms[idx])) :
           Apply(StartItem(fs, Task("entry", froms[idx], DestRoot, <<>>), ord), <<>>, q)
    /\ idx' = idx + 1
    /\ started' = Append(started, froms[idx])
    /\ startedPaused' = (startedPaused \/ paused)

\* fs_ext.rs 113-132: one iteration of `for from in froms`; a `true` taken from the
\* pause channel (fs_ext.rs 120-124) leaves the driver in pause_rx.recv()
MainPass ==
    /\ pc = "main" /\ work = <<>> /\ inflight = <<>> /\ ~blocked
    /\ IF idx > Len(froms)
       THEN /\ pc' = "conflicts"
            /\ UNCHANGED <<idx, fs, work, needs_confirm, deferred_dest, inflight, tx, started,
                           startedPaused, pause_ch, blocked>>
       ELSE IF cancelled
       THEN /\ pc' = "conflicts"
            /\ tx' = Send(tx, Started)
            /\ UNCHANGED <<idx, fs, work, needs_confirm, deferred_dest, inflight, started,
                           startedPaused, pause_ch, blocked>>
       ELSE IF pause_ch = <<TRUE>>
       THEN /\ blocked' = TRUE
            /\ pause_ch' = <<>>
            /\ tx' = Send(tx, Started)
            /\ UNCHANGED <<pc, idx, fs, work, needs_confirm, deferred_dest, inflight, started,
                           startedPaused>>
       ELSE /\ StartSource(Send(tx, Started))
            /\ pause_ch' = <<>>
            /\ UNCHANGED <<pc, blocked>>
    /\ UNCHANGED <<paused, clicks, handled, interrupted, failed, dialogs, operation, froms,
                   cancelled, replace_all, cidx, pstream, usage_ch, usages, cpc, turn,
                   extraEvents, pendingDeletes, prompts, replaceAllAt, skipAllAt, forced>>
    /\ UNCHANGED <<regVars, binVars, measVars, extVars>>

\* fs_ext.rs 343-351 (handle_directory) and 357-366 (execute_delete): the next child
\* of a recursed directory is started; the token is not consulted
NextChild ==
    /\ pc = "main" /\ work # <<>> /\ inflight = <<>>
    /\ \E ord \in Orders(Children(fs, Head(work).from)) :
           Apply(StartItem(fs, Head(work), ord), Tail(work), tx)
    /\ UNCHANGED <<startedPaused, blocked, pause_ch, clicks, paused, handled, interrupted,
                   failed, started, dialogs, operation, froms, cancelled, pc, idx, replace_all,
                   cidx, pstream, usage_ch, usages, cpc, turn, extraEvents, pendingDeletes,
                   prompts, replaceAllAt, skipAllAt, forced>>
    /\ UNCHANGED <<regVars, binVars, measVars, extVars>>

\* fs_ext.rs 166-170: the overwriting transfer of a deferred item
ForceTransfer(file, ci) ==
    CASE operation = "Copy" -> <<execute_copy_force(fs, file, DestRoot, ci)>>
      [] operation = "Move" -> <<execute_move_force(fs, file, DestRoot, ci)>>
      [] OTHER -> <<>>

\* a conflict loop that no answer ends
NeverBreaks(result) == FALSE

\* fs_ext.rs 157-159: the answer that ends the conflict loop
BreaksLoop(result) == result = "SkipAll"

\* fs_ext.rs 165: the answer that transfers the item
Transfers(result) == result = "Replace"

\* fs_ext.rs 151-155: with replace_all set the deferred item is replaced without a
\* prompt, otherwise the confirm dialog is shown for it
HandleDeferred(q) ==
    /\ IF replace_all
       THEN /\ inflight' = ForceTransfer(needs_confirm[cidx], cidx)
            /\ forced' = forced \cup {cidx}
            /\ cidx' = cidx + 1
            /\ UNCHANGED <<pc, prompts>>
       ELSE /\ pc' = "confirm"
            /\ prompts' = Append(prompts, cidx)
            /\ UNCHANGED <<inflight, cidx, forced>>
    /\ handled' = Append(handled, needs_confirm[cidx])
    /\ startedPaused' = (startedPaused \/ paused)
    /\ tx' = q

\* fs_ext.rs 134-155: one iteration of `for file in needs_confirm` up to the prompt;
\* a `true` taken from the pause channel (fs_ext.rs 145-149) leaves the driver in
\* pause_rx.recv()
ConflictPass ==
    /\ pc = "conflicts" /\ inflight = <<>> /\ ~blocked
    /\ IF cidx > Len(needs_confirm)
       THEN /\ pc' = "finish"
            /\ UNCHANGED <<tx, inflight, cidx, prompts, forced, handled, startedPaused,
                           pause_ch, blocked>>
       ELSE IF cancelled
       THEN /\ pc' = "finish"
            /\ tx' = Send(tx, Started)
            /\ UNCHANGED <<inflight, cidx, prompts, forced, handled, startedPaused,
                           pause_ch, blocked>>
       ELSE IF pause_ch = <<TRUE>>
       THEN /\ blocked' = TRUE
            /\ pause_ch' = <<>>
            /\ tx' = Send(tx, Started)
            /\ UNCHANGED <<pc, inflight, cidx, prompts, forced, handled, startedPaused>>
       ELSE /\ HandleDeferred(Send(tx, Started))
            /\ pause_ch' = <<>>
            /\ UNCHANGED blocked
    /\ UNCHANGED <<paused, clicks, interrupted, failed, started, dialogs, operation, froms, fs,
                   cancelled, idx, work, needs_confirm, deferred_dest, replace_all, pstream,
                   usage_ch, usages, cpc, turn, extraEvents, pendingDeletes, replaceAllAt,
                   skipAllAt>>
    /\ UNCHANGED <<regVars, binVars, measVars, extVars>>

ReplaceOrSkip == {"Replace", "ReplaceAll", "Skip", "SkipAll"}

\* fs_ext.rs 154-171: dialog.confirm returned `result`
Answer(result) ==
    /\ skipAllAt' = IF result = "SkipAll" /\ skipAllAt = 0 THEN cidx ELSE skipAllAt
    /\ replaceAllAt' = IF result = "ReplaceAll" /\ replaceAllAt = 0 THEN cidx ELSE replaceAllAt
    /\ IF BreaksLoop(result)
       THEN /\ pc' = "finish"
            /\ UNCHANGED <<replace_all, inflight, forced, cidx>>
       ELSE /\ pc' = "conflicts"
            /\ replace_all' = (replace_all \/ result = "ReplaceAll")
            /\ inflight' = IF Transfers(result) THEN ForceTransfer(needs_confirm[cidx], cidx) ELSE <<>>
            /\ forced' = IF Transfers(result) THEN forced \cup {cidx} ELSE forced
            /\ cidx' = cidx + 1
    /\ UNCHANGED <<startedPaused, blocked, pause_ch, clicks, paused, handled, interrupted,
                   failed, started, dialogs, operation, froms, fs, idx, work, needs_confirm,
                   deferred_dest, tx, pstream, usage_ch, usages, cpc, turn, extraEvents,
                   pendingDeletes, prompts>>

\* widgets.rs 427-443: the Overwrite and Skip buttons, with or without the check box
Confirm ==
    /\ pc = "confirm" /\ MainLoopFree
    /\ \E result \in ReplaceOrSkip : Answer(result)
    /\ UNCHANGED cancelled
    /\ UNCHANGED <<regVars, binVars, measVars, extVars>>

\* widgets.rs 445-465, 301-311: the confirm dialog's Cancel button cancels the token
\* and the response maps to Skip
ConfirmCancel ==
    /\ pc = "confirm" /\ MainLoopFree
    /\ cancelled' = TRUE
    /\ Answer("Skip")
    /\ UNCHANGED <<regVars, binVars, measVars, extVars>>

\* fs_ext.rs 175
Finish ==
    /\ pc = "finish"
    /\ tx' = Send(tx, Finished)
    /\ pc' = "done"
    /\ UNCHANGED <<startedPaused, blocked, pause_ch, clicks, paused, handled, interrupted,
                   failed, started, dialogs, operation, froms, fs, cancelled, idx, work,
                   needs_confirm, deferred_dest, replace_all, cidx, inflight, pstream, usage_ch,
                   usages, cpc, turn, extraEvents, pendingDeletes, prompts, replaceAllAt,
                   skipAllAt, forced>>
    /\ UNCHANGED <<regVars, binVars, measVars, extVars>>

\* ------------------------------------------------------------ the native call
Op == inflight[1]

IsTransfer(o) == o.kind \in {"copy", "move"}

\* the native copy/move reports (current, total): current never decreases and the
\* last report is (total, total)
NativeProgress ==
    /\ inflight # <<>> /\ IsTransfer(Op) /\ Op.stage = "running" /\ ~Op.doomed
    /\ MainLoopFree
    /\ \E c \in Op.cur..Op.size :
          /\ LET final == c = Op.size /\ ~Op.reported
             IN /\ ~final => extraEvents < MaxExtraEvents
                /\ extraEvents' = IF final THEN extraEvents ELSE extraEvents + 1
                /\ inflight' = <<[Op EXCEPT !.cur = c, !.reported = @ \/ c = Op.size]>>
          /\ pstream' = Append(pstream, <<c, Op.size>>)
          /\ fs' = IF ~Op.force /\ (~Exists(fs, Op.dst) \/ fs[Op.dst].content = "partial")
                   THEN Put(fs, Op.dst, FileNode("partial", c))
                   ELSE fs
    /\ UNCHANGED <<startedPaused, blocked, pause_ch, clicks, paused, handled, interrupted,
                   failed, started, dialogs, operation, froms, cancelled, pc, idx, work,
                   needs_confirm, deferred_dest, replace_all, cidx, tx, usage_ch, usages, cpc,
                   turn, pendingDeletes, prompts, replaceAllAt, skipAllAt, forced>>
    /\ UNCHANGED <<regVars, binVars, measVars, extVars>>

\* what a successful native call leaves in the file system
NativeEffect(f, o) ==
    CASE o.kind = "copy" -> Put(f, o.dst, f[o.src])
      [] o.kind = "move" -> Remove(Put(f, o.dst, f[o.src]), o.src)
      [] o.kind = "delete" -> Remove(f, o.src)
      [] o.kind = "trash" -> RemoveTree(f, o.src)

\* whether the native call can succeed on this file system
NativeCanSucceed(f, o) ==
    /\ Exists(f, o.src)
    /\ IsTransfer(o) => o.reported
    /\ o.kind = "delete" => Children(f, o.src) = {}

\* the platform worker ends the call: with success, with an I/O error, or with
\* the Cancelled error when it has noticed the cancelled token
NativeFinish ==
    /\ inflight # <<>> /\ Op.stage = "running" /\ ~Op.doomed
    /\ \E r \in {"ok", "err", "cancelled"} :
          /\ r = "ok" => NativeCanSucceed(fs, Op)
          /\ r = "cancelled" => cancelled
          /\ inflight' = <<[Op EXCEPT !.stage = "finished", !.result = r]>>
          /\ fs' = IF r = "ok" THEN NativeEffect(fs, Op) ELSE fs
    /\ UNCHANGED <<startedPaused, blocked, pause_ch, clicks, paused, handled, interrupted,
                   failed, started, dialogs, operation, froms, cancelled, pc, idx, work,
                   needs_confirm, deferred_dest, replace_all, cidx, tx, pstream, usage_ch,
                   usages, cpc, turn, extraEvents, pendingDeletes, prompts, replaceAllAt,
                   skipAllAt, forced>>
    /\ UNCHANGED <<regVars, binVars, measVars, extVars>>

\* fs_ext.rs 252-254 and 258-260: the delete_async calls of the Err branch
CleanupFile(o, is_cancel) == IF is_cancel /\ IsTransfer(o) THEN {o.dst} ELSE {}

ParentDir(o) == IF o.parent # <<>> THEN {o.parent[1]} ELSE {}

\* fs_ext.rs 262: e.message() of the error the race ended with; the text of a
\* cancellation is "User cancelled" or the native call's own cancellation text
ErrMessage(result) == IF result = "cancelled" THEN "cancelled" ELSE "failed"

\* fs_ext.rs 245-264: the race is won by the native call

Resume ==
    /\ inflight # <<>> /\ Op.stage = "finished" /\ MainLoopFree
    /\ IF Op.result = "ok"
       THEN /\ tx' = Send(tx, Done("Ok"))
            /\ UNCHANGED pendingDeletes
       ELSE /\ tx' = Send(tx, Done(ErrMessage(Op.result)))
            /\ pendingDeletes' = pendingDeletes \cup CleanupFile(Op, Op.result = "cancelled")
                                                \cup ParentDir(Op)
    /\ failed' = IF Op.result = "err" THEN Append(failed, [src |-> Op.src, at |-> Len(started)])
                  ELSE failed
    /\ interrupted' = IF Op.result = "cancelled" /\ IsTransfer(Op) THEN interrupted \cup {Op.dst}
                       ELSE interrupted
    /\ inflight' = <<>>
    /\ UNCHANGED <<startedPaused, blocked, pause_ch, clicks, paused, handled, dialogs,
                   extraEvents, operation, froms, fs, cancelled, pc, idx, work, needs_confirm,
                   deferred_dest, replace_all, cidx, pstream, usage_ch, usages, cpc, turn,
                   prompts, replaceAllAt, skipAllAt, forced, started>>
    /\ UNCHANGED <<regVars, binVars, measVars, extVars>>

\* fs_ext.rs 240-264: the race is won by the cancellation signal (the native call's
\* result, if the worker already has one, has not been delivered to the driver)
RaceCancelled ==
    /\ inflight # <<>> /\ cancelled /\ MainLoopFree
    /\ tx' = Send(tx, Done(ErrMessage("cancelled")))
    /\ pendingDeletes' = pendingDeletes \cup CleanupFile(Op, TRUE) \cup ParentDir(Op)
    /\ interrupted' = IF IsTransfer(Op) THEN interrupted \cup {Op.dst} ELSE interrupted
    /\ inflight' = <<>>
    /\ UNCHANGED <<startedPaused, blocked, pause_ch, clicks, paused, handled, failed, started,
                   dialogs, extraEvents, operation, froms, fs, cancelled, pc, idx, work,
                   needs_confirm, deferred_dest, replace_all, cidx, pstream, usage_ch, usages,
                   cpc, turn, prompts, replaceAllAt, skipAllAt, forced>>
    /\ UNCHANGED <<regVars, binVars, measVars, extVars>>

\* a delete_async issued by run_with_cancellable is carried out: a file or an
\* empty directory is removed, anything else fails silently
AsyncDelete ==
    /\ \E p \in pendingDeletes :
          /\ pendingDeletes' = pendingDeletes \ {p}
          /\ fs' = IF Exists(fs, p) /\ Children(fs, p) = {} THEN Remove(fs, p) ELSE fs
    /\ UNCHANGED <<startedPaused, blocked, pause_ch, clicks, paused, handled, interrupted,
                   failed, started, dialogs, extraEvents, operation, froms, cancelled, pc, idx,
                   work, needs_confirm, deferred_dest, replace_all, cidx, inflight, tx, pstream,
                   usage_ch, usages, cpc, turn, prompts, replaceAllAt, skipAllAt, forced>>
    /\ UNCHANGED <<regVars, binVars, measVars, extVars>>

\* fs_ext.rs 232-238: the forwarding task moves one progress event into the channel
Forward ==
    /\ pstream # <<>> /\ DriverWaits
    /\ turn = "forwarder" \/ MainLoopFree
    /\ tx' = Send(tx, Progress(Head(pstream)[1], Head(pstream)[2]))
    /\ pstream' = Tail(pstream)
    /\ turn' = IF pstream' = <<>> THEN "idle" ELSE "forwarder"
    /\ UNCHANGED <<startedPaused, blocked, pause_ch, clicks, paused, handled, interrupted,
                   failed, started, dialogs, operation, froms, fs, cancelled, pc, idx, work,
                   needs_confirm, deferred_dest, replace_all, cidx, inflight, usage_ch, usages,
                   cpc, extraEvents, pendingDeletes, prompts, replaceAllAt, skipAllAt, forced>>
    /\ UNCHANGED <<regVars, binVars, measVars, extVars>>

\* ------------------------------------------------------- the message consumer
\* fs_ext.rs 59
RecvUsage ==
    /\ cpc = "wait_usage" /\ usage_ch # <<>> /\ DriverWaits /\ MainLoopFree
    /\ usages' = Head(usage_ch)
    /\ usage_ch' = <<>>
    /\ cpc' = "loop"
    /\ turn' = IF tx # <<>> THEN "consumer" ELSE "idle"
    /\ UNCHANGED <<startedPaused, blocked, pause_ch, clicks, paused, handled, interrupted,
                   failed, started, dialogs, operation, froms, fs, cancelled, pc, idx, work,
                   needs_confirm, deferred_dest, replace_all, cidx, inflight, tx, pstream,
                   extraEvents, pendingDeletes, prompts, replaceAllAt, skipAllAt, forced>>
    /\ UNCHANGED <<regVars, binVars, measVars, extVars>>

\* fs_ext.rs 70-76: BatchOpMessage::Progress(proccessed, total)
OnProgress(u, proccessed, total) ==
    IF proccessed < total
    THEN [u EXCEPT !.processed_size = @ + (total - proccessed)]
    ELSE [u EXCEPT !.processed_size = @ + total]

\* fs_ext.rs 79-95: BatchOpMessage::Done(result)
OnDone(u, result) == IF result = "Ok" THEN [u EXCEPT !.processed_count = @ + 1] ELSE u

\* a consumer that raises no dialog
NoErrorDialogs(d, m) == d

\* fs_ext.rs 80-89: an Err result spawns an error message dialog showing its text
ErrorDialogs(d, m) == IF m.type = "Done" /\ m.result # "Ok" THEN Append(d, m.result) ELSE d

\* fs_ext.rs 49: the id register_cancellable gave the batch
cancel_id == <<0, 0>>

\* linux/fs.rs 428-432: clean_up removes the id when try_lock gets the Mutex
Released(reg, id) ==
    IF lock = "free" /\ ~poisoned THEN [k \in DOMAIN reg \ {id} |-> reg[k]] ELSE reg

\* fs_ext.rs 61-100: one message is received and handled; Finished ends the consumer
\* with clean_up (dialog.close() and the removal of the id)
Consume ==
    /\ cpc = "loop" /\ tx # <<>> /\ DriverWaits
    /\ turn = "consumer" \/ MainLoopFree
    /\ turn' = IF Head(tx).type = "Finished" \/ Tail(tx) = <<>> THEN "idle" ELSE "consumer"
    /\ LET m == Head(tx)
       IN /\ usages' = CASE m.type = "Progress" -> OnProgress(usages, m.cur, m.total)
                         [] m.type = "Done" -> OnDone(usages, m.result)
                         [] OTHER -> usages
          /\ dialogs' = ErrorDialogs(dialogs, m)
          /\ IF m.type = "Finished"
             THEN /\ cpc' = "closed" /\ tx' = <<>>
                  /\ registry' = Released(registry, cancel_id)
                  /\ issued' = IF lock = "free" /\ ~poisoned
                               THEN SelectSeq(issued, LAMBDA x : x # cancel_id) ELSE issued
             ELSE /\ cpc' = cpc /\ tx' = Tail(tx)
                  /\ UNCHANGED <<registry, issued>>
    /\ UNCHANGED <<startedPaused, blocked, pause_ch, clicks, paused, handled, interrupted,
                   failed, started, operation, froms, fs, cancelled, pc, idx, work,
                   needs_confirm, deferred_dest, replace_all, cidx, inflight, pstream, usage_ch,
                   extraEvents, pendingDeletes, prompts, replaceAllAt, skipAllAt, forced>>
    /\ UNCHANGED <<platform, UUID, cancelledToks, nextTok, lock, poisoned, th, calls,
                   lastCancel, lastMv>>
    /\ UNCHANGED <<binVars, measVars, extVars>>

\* fs_ext.rs 122 and 147: pause_rx.recv() returns with whatever was sent, and the
\* iteration that was left goes on
PauseRecv ==
    /\ blocked /\ pause_ch # <<>>
    /\ blocked' = FALSE
    /\ pause_ch' = <<>>
    /\ IF pc = "main"
       THEN /\ StartSource(tx)
            /\ UNCHANGED <<pc, cidx, prompts, forced, handled>>
       ELSE /\ HandleDeferred(tx)
            /\ UNCHANGED <<idx, fs, work, needs_confirm, deferred_dest, started>>
    /\ UNCHANGED <<paused, clicks, interrupted, failed, dialogs, operation, froms, cancelled,
                   replace_all, pstream, usage_ch, usages, cpc, turn, extraEvents,
                   pendingDeletes, replaceAllAt, skipAllAt>>
    /\ UNCHANGED <<regVars, binVars, measVars, extVars>>

\* ------------------------------------------------------------------ the user
\* widgets.rs 201-212: a click on the pause button toggles "paused" and try_sends the
\* new value, which is lost when the channel is full
PauseClick ==
    /\ clicks < MaxClicks /\ cpc # "closed" /\ DriverWaits
    /\ clicks' = clicks + 1
    /\ paused' = ~paused
    /\ pause_ch' = IF pause_ch = <<>> THEN <<~paused>> ELSE pause_ch
    /\ UNCHANGED <<blocked, startedPaused, handled, interrupted, failed, started, dialogs,
                   operation, froms, fs, cancelled, pc, idx, work, needs_confirm, deferred_dest,
                   replace_all, cidx, inflight, tx, pstream, usage_ch, usages, cpc, turn,
                   extraEvents, pendingDeletes, prompts, replaceAllAt, skipAllAt, forced>>
    /\ UNCHANGED <<regVars, binVars, measVars, extVars>>

\* widgets.rs 231-256 / fs.rs 485-494, 793-798: the token of the batch is cancelled
Cancel ==
    /\ ~cancelled /\ cpc # "closed"
    /\ cancelled' = TRUE
    /\ UNCHANGED <<startedPaused, blocked, pause_ch, clicks, paused, handled, interrupted,
                   failed, started, dialogs, operation, froms, fs, pc, idx, work, needs_confirm,
                   deferred_dest, replace_all, cidx, inflight, tx, pstream, usage_ch, usages,
                   cpc, turn, extraEvents, pendingDeletes, prompts, replaceAllAt, skipAllAt,
                   forced>>
    /\ UNCHANGED <<regVars, binVars, measVars, extVars>>

\* linux/fs.rs 485-486: another thread calls cancel(cancel_id) and gets the Mutex
\* (a call whose try_lock fails returns false and changes nothing)
CancelFromThread ==
    /\ calls < MaxCalls /\ lock = "free" /\ ~poisoned /\ cpc # "closed"
    /\ lock' = "t1"
    /\ calls' = calls + 1
    /\ UNCHANGED <<platform, UUID, registry, cancelledToks, nextTok, poisoned, th, issued,
                   lastCancel, lastMv>>
    /\ UNCHANGED <<batchVars, binVars, measVars, extVars>>

\* linux/fs.rs 487-490: the token is looked up and cancelled, the Mutex released
CancelFromThreadLocked ==
    /\ lock = "t1"
    /\ cancelled' = (cancelled \/ cancel_id \in DOMAIN registry)
    /\ lock' = "free"
    /\ UNCHANGED <<startedPaused, blocked, pause_ch, clicks, paused, handled, interrupted,
                   failed, started, dialogs, operation, froms, fs, pc, idx, work, needs_confirm,
                   deferred_dest, replace_all, cidx, inflight, tx, pstream, usage_ch, usages,
                   cpc, turn, extraEvents, pendingDeletes, prompts, replaceAllAt, skipAllAt,
                   forced>>
    /\ UNCHANGED <<platform, UUID, registry, cancelledToks, nextTok, poisoned, th, calls,
                   issued, lastCancel, lastMv>>
    /\ UNCHANGED <<binVars, measVars, extVars>>

\* the files the batch was given: the sources that are files and the files below
\* the sources that are directories
SourceFiles ==
    {p \in DOMAIN BaseFs : /\ BaseFs[p].kind = "file"
                           /\ \E i \in DOMAIN froms : \E n \in 1..Len(p) : SubSeq(p, 1, n) = froms[i]}

\* where a file below the source root ends up below the destination root
DestOf(p) == DestRoot \o SubSeq(p, Len(SrcRoot) + 1, Len(p))

\* fs_ext.rs 310-311, 282-283: a batch running at the same time into the same
\* destination directory (or any other program) completes the write of a file of
\* the same name where none was
OtherBatchWrites ==
    /\ pc # "done"
    /\ \E p \in {DestOf(q) : q \in SourceFiles} :
          /\ ~Exists(fs, p)
          /\ Exists(fs, SubSeq(p, 1, Len(p) - 1))
          /\ fs' = Put(fs, p, FileNode("other", 1))
    /\ UNCHANGED <<startedPaused, blocked, pause_ch, clicks, paused, handled, interrupted,
                   failed, started, dialogs, operation, froms, cancelled, pc, idx, work,
                   needs_confirm, deferred_dest, replace_all, cidx, inflight, tx, pstream,
                   usage_ch, usages, cpc, turn, extraEvents, pendingDeletes, prompts,
                   replaceAllAt, skipAllAt, forced>>
    /\ UNCHANGED <<regVars, binVars, measVars, extVars>>

BatchNext ==
    \/ Measure
    \/ MainPass
    \/ NextChild
    \/ ConflictPass
    \/ Confirm
    \/ ConfirmCancel
    \/ Finish
    \/ NativeProgress
    \/ NativeFinish
    \/ Resume
    \/ RaceCancelled
    \/ AsyncDelete
    \/ Forward
    \/ RecvUsage
    \/ Consume
    \/ Cancel

\* ------------------------------------------------- properties of the batch
IsTransferBatch == operation \in {"Copy", "Move"}

\* C1: in a Copy or Move batch the processed-bytes counter never exceeds the
\* measured total size of the batch, whatever progress the native calls report
\* (each item reporting a non-decreasing current that ends at its total)
C1_ProcessedWithinTotal ==
    IsTransferBatch /\ cpc # "wait_usage" => usages.processed_size <= usages.total_size

\* C2: once the token is cancelled no native call is issued and no destination
\* directory is created, for a top-level source or a child of a recursed directory
C2_NothingStartsAfterCancel ==
    [][cancelled =>
         /\ ~(inflight = <<>> /\ inflight' # <<>>)
         /\ \A p \in DOMAIN fs' \ DOMAIN fs : fs'[p].kind # "dir"]_vars

\* C4: the overwriting transfer of a deferred item is written to the destination
\* whose existence deferred the item, also for an item inside a recursed directory
C4_ReplaceWritesDeferredDest ==
    inflight # <<>> /\ Op.force => Op.dst = deferred_dest[Op.cidx]

\* C5: once ReplaceAll is chosen no later item is prompted for, and in a batch that
\* ran to its end without cancellation the item it was chosen for and every
\* deferred item after it has been transferred with overwrite
C5_ReplaceAllApplies ==
    replaceAllAt > 0 =>
        /\ \A i \in 1..Len(prompts) : prompts[i] <= replaceAllAt
        /\ pc = "done" /\ ~cancelled =>
               \A j \in replaceAllAt..Len(needs_confirm) : j \in forced

\* C6: after SkipAll no confirm prompt is shown, no deferred item is transferred,
\* and the sources and existing destinations of the item it was chosen for and of
\* the deferred items after it stay as they are
C6_SkipAllSkipsTheRest ==
    [][skipAllAt > 0 =>
         /\ prompts' = prompts
         /\ forced' = forced
         /\ ~(inflight = <<>> /\ inflight' # <<>>)
         /\ \A j \in skipAllAt..Len(needs_confirm) :
               /\ NodeAt(fs', needs_confirm[j]) = NodeAt(fs, needs_confirm[j])
               /\ NodeAt(fs', deferred_dest[j]) = NodeAt(fs, deferred_dest[j])]_vars

\* SkipAll was chosen with a deferred item still behind it, and the batch has ended
C6_Witness ==
    /\ skipAllAt > 0 /\ skipAllAt < Len(needs_confirm)
    /\ pc = "done" /\ cpc = "closed"

\* C11: an item interrupted by cancellation raises no error notification: none of
\* the error message dialogs of a batch shows the error of a cancellation
C11_CancellationRaisesNoError ==
    \A i \in DOMAIN dialogs : dialogs[i] # ErrMessage("cancelled")

\* the error message dialogs showing an I/O error, and the Done messages carrying
\* one that the consumer has not handled yet
IoErrorDialogs == {i \in DOMAIN dialogs : dialogs[i] = ErrMessage("err")}

IoErrorsInFlight == {i \in DOMAIN tx : tx[i] = Done(ErrMessage("err"))}

C13_ProcessedCountWithinTotal ==
    operation \in {"Delete", "Trash"} => usages.processed_count <= usages.total_count

\* C14: a Copy batch that ended with no conflict, failure or cancellation, all of
\* whose messages were handled, has processed_size = total_size (each item added
\* its byte size over its progress callbacks) and processed_count = total_count
C14_CopyEndsWithExactTotals ==
    /\ operation = "Copy" /\ pc = "done" /\ cpc = "closed" /\ pstream = <<>>
    /\ needs_confirm = <<>> /\ failed = <<>> /\ ~cancelled
    => /\ usages.processed_size = usages.total_size
       /\ usages.processed_count = usages.total_count

\* C15: once the batch has ended, the destination of every Copy or Move item that
\* cancellation interrupted does not exist
C15_NoPartialAtBatchEnd ==
    pc = "done" /\ cpc = "closed" => \A p \in interrupted : ~Exists(fs, p)

\* C16: conflict resolution happens strictly after the main pass: while the main
\* pass runs no deferred item has been prompted for or replaced and no native call
\* overwrites; the deferred items are handled in the order they were recorded, each
\* at most once, and the record stays as the main pass left it
C16_ConflictsAfterMainPass ==
    /\ pc \in {"measure", "main"}
       => /\ handled = <<>> /\ prompts = <<>> /\ forced = {}
          /\ inflight # <<>> => ~Op.force
    /\ handled # <<>> => work = <<>>
    /\ Len(handled) <= Len(needs_confirm) /\ handled = SubSeq(needs_confirm, 1, Len(handled))
    /\ \A i, j \in DOMAIN needs_confirm : i # j => needs_confirm[i] # needs_confirm[j]
    /\ \A i \in DOMAIN prompts : \A j \in DOMAIN prompts : i < j => prompts[i] < prompts[j]

\* a batch that ended after two deferred items were handled, the first by a prompt
C16_Witness ==
    /\ pc = "done" /\ Len(handled) >= 2 /\ Len(prompts) >= 1 /\ forced # {}

\* C17: a batch whose button shows 'resumed' is not left waiting for a resume
\* signal (a driver that waits has the signal in its channel), and no top-level
\* item is started while the button shows 'paused'
C17_PauseFollowsButton ==
    /\ blocked /\ ~paused => pause_ch # <<>>
    /\ ~startedPaused

\* C21: in a Delete or Trash batch the handling of the Done message of an item
\* whose native call succeeded or failed with an I/O error adds exactly one to the
\* processed-items counter
C21_EveryOutcomeCountsOnce ==
    [][/\ operation \in {"Delete", "Trash"}
       /\ cpc = "loop" /\ tx # <<>> /\ tx' = Tail(tx)
       /\ Head(tx).type = "Done" /\ Head(tx).result \in {"Ok", ErrMessage("err")}
       => usages'.processed_count = usages.processed_count + 1]_vars

\* C22: once the Finished message of a batch has been processed (the consumer has
\* ended and closed the dialog) the batch's id is no longer in the registry,
\* whether the batch completed, had failures or was cancelled
C22_FinishedReleasesId ==
    cpc = "closed" => cancel_id \notin DOMAIN registry

\* C23: in a Move batch no item's content is lost, however the user's cancel
\* interleaves with the native moves: once the batch has ended every file given
\* to it is at its source path or, with its content, at its destination path
C23_MoveNeverLosesContent ==
    operation = "Move" /\ pc = "done" /\ cpc = "closed" =>
        \A p \in SourceFiles :
            \/ Exists(fs, p)
            \/ Exists(fs, DestOf(p)) /\ fs[DestOf(p)].content = BaseFs[p].content

\* C24: a native copy or move never replaces a file that exists at its destination
\* (other than the data the call itself has written so far) unless the item was
\* given a Replace or ReplaceAll decision, also when the file appeared after the
\* existence check, written by a concurrent batch
C24_NoOverwriteWithoutDecision ==
    [][/\ inflight # <<>> /\ IsTransfer(Op) /\ Exists(fs, Op.dst)
       /\ fs[Op.dst].content # "partial"
       /\ Exists(fs', Op.dst) /\ fs'[Op.dst] # fs[Op.dst]
       => Op.force]_vars

\* C30: when the driver sends an item's Done, every progress event of the native
\* call has been forwarded into the channel (so that it is applied before the Done
\* is processed), and when the consumer ends on Finished none is left to forward
C30_ProgressBeforeDone ==
    [][/\ Len(tx') = Len(tx) + 1 /\ tx'[Len(tx')].type = "Done" => pstream = <<>>
       /\ cpc # "closed" /\ cpc' = "closed" => pstream = <<>> /\ Len(tx) = 1]_vars

\* ------------------------------------------------ the registry of tokens
\* gio.rs, win.rs and linux/fs.rs each keep a 32-bit counter UUID and a map from
\* ids to tokens behind one Mutex.  Calls run on the threads of Threads; taking
\* the lock, working under it and returning are separate steps.
Threads == {"t1", "t2"}

Platforms == {"gio", "win", "linux"}

\* progress callbacks of one win move
MaxCallbacks == 1

\* A u32 is the pair <<high, low>> of its 16-bit halves.
U16 == 2^16

Zero == <<0, 0>>

MaxU32 == <<U16 - 1, U16 - 1>>

\* AtomicU32::fetch_add(1): the counter after the call; it wraps to zero
fetch_add(c) == IF c[2] = U16 - 1 THEN <<(c[1] + 1) % U16, 0>> ELSE <<c[1], c[2] + 1>>

\* the ids the callers hand to cancel and to a cancellable move
IdPool == {Zero, <<0, 1>>, MaxU32}

IdleThread == [pc |-> "idle", id |-> Zero, tok |-> 0, present |-> FALSE, seen |-> FALSE, cbs |-> 0]

Without(reg, id) == [k \in DOMAIN reg \ {id} |-> reg[k]]

Inserted(reg, id, tok) == [k \in DOMAIN reg \cup {id} |-> IF k = id THEN tok ELSE reg[k]]

Forget(seq, id) == SelectSeq(seq, LAMBDA x : x # id)

\* Mutex::try_lock succeeds
CanTryLock == lock = "free" /\ ~poisoned

\* The counter starts at 0 with an empty registry, or the run begins where the
\* program is after 2^32 - 1 reserves of which only the first (id 0) has not been
\* released: the counter is at its last value.
RegInit ==
    /\ platform \in Platforms
    /\ \/ UUID = Zero /\ registry = <<>> /\ issued = <<>> /\ nextTok = 1
       \/ UUID = MaxU32 /\ registry = (Zero :> 1) /\ issued = <<Zero>> /\ nextTok = 2
    /\ cancelledToks = {}
    /\ lock = "free"
    /\ poisoned = FALSE
    /\ th = [t \in Threads |-> IdleThread]
    /\ calls = 0
    /\ lastCancel = [t \in Threads |-> <<>>]
    /\ lastMv = [t \in Threads |-> <<>>]

CanCall(t) == th[t].pc = "idle" /\ calls < MaxCalls

\* gio.rs 19, win.rs 38: let id = UUID.fetch_add(1)
reserve_fetch(t) ==
    /\ CanCall(t) /\ platform \in {"gio", "win"}
    /\ th' = [th EXCEPT ![t] = [IdleThread EXCEPT !.pc = "reserve_lock", !.id = UUID]]
    /\ UUID' = fetch_add(UUID)
    /\ calls' = calls + 1
    /\ UNCHANGED <<platform, registry, cancelledToks, nextTok, lock, poisoned, issued,
                   lastCancel, lastMv>>
    /\ UNCHANGED <<batchVars, binVars, measVars, extVars>>

\* linux/fs.rs 218-219: register_cancellable is called and waits for the lock
register_cancellable(t) ==
    /\ CanCall(t) /\ platform = "linux"
    /\ th' = [th EXCEPT ![t] = [IdleThread EXCEPT !.pc = "register_lock"]]
    /\ calls' = calls + 1
    /\ UNCHANGED <<platform, UUID, registry, cancelledToks, nextTok, lock, poisoned, issued,
                   lastCancel, lastMv>>
    /\ UNCHANGED <<batchVars, binVars, measVars, extVars>>

\* Mutex::lock().unwrap() of reserve, register_cancellable and cancellable_move:
\* it waits for the lock and panics when the Mutex is poisoned
LockUnwrap(t, to) ==
    /\ lock = "free"
    /\ IF poisoned
       THEN th' = [th EXCEPT ![t].pc = "panicked"] /\ UNCHANGED lock
       ELSE th' = [th EXCEPT ![t].pc = to] /\ lock' = t
    /\ UNCHANGED <<platform, UUID, registry, cancelledToks, nextTok, poisoned, calls, issued,
                   lastCancel, lastMv>>
    /\ UNCHANGED <<batchVars, binVars, measVars, extVars>>

\* gio.rs 21, win.rs 40
reserve_lock(t) == th[t].pc = "reserve_lock" /\ LockUnwrap(t, "reserve_insert")

\* linux/fs.rs 219
register_lock(t) == th[t].pc = "register_lock" /\ LockUnwrap(t, "register_insert")

\* gio.rs 22-25, win.rs 41-43: insert, unlock, return the id
reserve_insert(t) ==
    /\ th[t].pc = "reserve_insert"
    /\ registry' = Inserted(registry, th[t].id, nextTok)
    /\ nextTok' = nextTok + 1
    /\ issued' = Append(issued, th[t].id)
    /\ lock' = "free"
    /\ th' = [th EXCEPT ![t] = IdleThread]
    /\ UNCHANGED <<platform, UUID, cancelledToks, poisoned, calls, lastCancel, lastMv>>
    /\ UNCHANGED <<batchVars, binVars, measVars, extVars>>

\* linux/fs.rs 220-223: the id is taken while the lock is held
register_insert(t) ==
    /\ th[t].pc = "register_insert"
    /\ UUID' = fetch_add(UUID)
    /\ registry' = Inserted(registry, UUID, nextTok)
    /\ nextTok' = nextTok + 1
    /\ issued' = Append(issued, UUID)
    /\ lock' = "free"
    /\ th' = [th EXCEPT ![t] = IdleThread]
    /\ UNCHANGED <<platform, cancelledToks, poisoned, calls, lastCancel, lastMv>>
    /\ UNCHANGED <<batchVars, binVars, measVars, extVars>>

CancelReturn(id, present, ret, marked) ==
    <<[id |-> id, present |-> present, ret |-> ret, marked |-> marked]>>

\* gio.rs 83, win.rs 252, linux/fs.rs 486: cancel(id) tries the lock; when that
\* fails the call returns false
cancel(t) ==
    /\ CanCall(t)
    /\ calls' = calls + 1
    /\ \E id \in IdPool :
          IF CanTryLock
          THEN /\ lock' = t
               /\ th' = [th EXCEPT ![t] = [IdleThread EXCEPT !.pc = "cancel_locked", !.id = id,
                                                             !.present = id \in DOMAIN registry]]
               /\ UNCHANGED lastCancel
          ELSE /\ lastCancel' = [lastCancel EXCEPT ![t] =
                                    CancelReturn(id, id \in DOMAIN registry, FALSE,
                                                 id \in DOMAIN registry /\ registry[id] \in cancelledToks)]
               /\ UNCHANGED <<lock, th>>
    /\ UNCHANGED <<platform, UUID, registry, cancelledToks, nextTok, poisoned, issued, lastMv>>
    /\ UNCHANGED <<batchVars, binVars, measVars, extVars>>

\* gio.rs 84-88 (cancel and remove), win.rs 253-256 (set PROGRESS_CANCEL),
\* linux/fs.rs 487-490 (cancel): the lookup under the lock
cancel_locked(t) ==
    /\ th[t].pc = "cancel_locked"
    /\ LET id == th[t].id
           found == id \in DOMAIN registry
       IN /\ cancelledToks' = IF found THEN cancelledToks \cup {registry[id]} ELSE cancelledToks
          /\ registry' = IF found /\ platform = "gio" THEN Without(registry, id) ELSE registry
          /\ issued' = IF found /\ platform = "gio" THEN Forget(issued, id) ELSE issued
          /\ lastCancel' = [lastCancel EXCEPT ![t] = CancelReturn(id, th[t].present, found, found)]
    /\ lock' = "free"
    /\ th' = [th EXCEPT ![t] = IdleThread]
    /\ UNCHANGED <<platform, UUID, nextTok, poisoned, calls, lastMv>>
    /\ UNCHANGED <<batchVars, binVars, measVars, extVars>>

\* gio.rs 28-42 (mv, mv_with_progress with Some(id)), win.rs 46-47 (mv with Some(id))
mv(t) ==
    /\ CanCall(t) /\ platform \in {"gio", "win"}
    /\ calls' = calls + 1
    /\ \E id \in IdPool :
          th' = [th EXCEPT ![t] = [IdleThread EXCEPT !.id = id,
                                      !.pc = IF platform = "gio" THEN "mv_lock" ELSE "mv_copy"]]
    /\ UNCHANGED <<platform, UUID, registry, cancelledToks, nextTok, lock, poisoned, issued,
                   lastCancel, lastMv>>
    /\ UNCHANGED <<batchVars, binVars, measVars, extVars>>

\* gio.rs 42
mv_lock(t) == th[t].pc = "mv_lock" /\ LockUnwrap(t, "mv_get")

\* gio.rs 43: tokens.get(&id).unwrap().clone(); the unwrap of a missing id panics
\* with the lock held
mv_get(t) ==
    /\ th[t].pc = "mv_get"
    /\ IF th[t].id \in DOMAIN registry
       THEN /\ th' = [th EXCEPT ![t].pc = "mv_copy", ![t].tok = registry[th[t].id]]
            /\ UNCHANGED poisoned
       ELSE /\ th' = [th EXCEPT ![t].pc = "panicked"]
            /\ poisoned' = TRUE
    /\ lock' = "free"
    /\ UNCHANGED <<platform, UUID, registry, cancelledToks, nextTok, calls, issued, lastCancel,
                   lastMv>>
    /\ UNCHANGED <<batchVars, binVars, measVars, extVars>>

\* win.rs 205-211, 239-245: the progress callback tries the lock for its lookup
progress_lookup(t) ==
    /\ th[t].pc = "mv_copy" /\ platform = "win" /\ th[t].cbs < MaxCallbacks
    /\ IF CanTryLock
       THEN th' = [th EXCEPT ![t].pc = "mv_lookup", ![t].cbs = @ + 1] /\ lock' = t
       ELSE th' = [th EXCEPT ![t].cbs = @ + 1] /\ UNCHANGED lock
    /\ UNCHANGED <<platform, UUID, registry, cancelledToks, nextTok, poisoned, calls, issued,
                   lastCancel, lastMv>>
    /\ UNCHANGED <<batchVars, binVars, measVars, extVars>>

\* win.rs 207-209, 241-243: return *cancellable
progress_return(t) ==
    /\ th[t].pc = "mv_lookup"
    /\ th' = [th EXCEPT ![t].pc = "mv_copy",
                        ![t].seen = @ \/ (th[t].id \in DOMAIN registry
                                          /\ registry[th[t].id] \in cancelledToks)]
    /\ lock' = "free"
    /\ UNCHANGED <<platform, UUID, registry, cancelledToks, nextTok, poisoned, calls, issued,
                   lastCancel, lastMv>>
    /\ UNCHANGED <<batchVars, binVars, measVars, extVars>>

MvReturn(id, out, reg) == <<[id |-> id, out |-> out, registered |-> id \in DOMAIN reg]>>

\* whether the copy of a move can end as cancelled: the gio token the call holds
\* is cancelled, or a win progress callback returned PROGRESS_CANCEL
CanEndCancelled(t) ==
    IF platform = "gio" THEN th[t].tok \in cancelledToks ELSE th[t].seen

\* gio.rs 49-70 and win.rs 47-49, 166-167: the copy ends.  gio removes the id only
\* after a successful copy and source delete; win always goes on to clean_up.
\* Either way the removal is tried with try_lock and skipped when that fails.
mv_copy(t) ==
    /\ th[t].pc = "mv_copy"
    /\ \E out \in {"ok", "err", "cancelled"}, deleted \in BOOLEAN :
          /\ out = "cancelled" => CanEndCancelled(t)
          /\ platform = "win" => deleted
          /\ out # "ok" => deleted
          /\ LET removes == platform = "win" \/ (out = "ok" /\ deleted)
             IN IF removes /\ CanTryLock
                THEN /\ lock' = t
                     /\ th' = [th EXCEPT ![t].pc = IF out = "ok" THEN "mv_remove_ok"
                                                  ELSE IF out = "err" THEN "mv_remove_err"
                                                  ELSE "mv_remove_cancelled"]
                     /\ UNCHANGED lastMv
                ELSE /\ lastMv' = [lastMv EXCEPT ![t] =
                                      MvReturn(th[t].id, IF deleted THEN out ELSE "err", registry)]
                     /\ th' = [th EXCEPT ![t] = IdleThread]
                     /\ UNCHANGED lock
    /\ UNCHANGED <<platform, UUID, registry, cancelledToks, nextTok, poisoned, calls, issued,
                   lastCancel>>
    /\ UNCHANGED <<batchVars, binVars, measVars, extVars>>

MvOutcome(at) ==
    CASE at = "mv_remove_ok" -> "ok"
      [] at = "mv_remove_err" -> "err"
      [] at = "mv_remove_cancelled" -> "cancelled"

\* gio.rs 53-57, win.rs 168-172: remove the id under the lock, unlock, return
mv_remove(t) ==
    /\ th[t].pc \in {"mv_remove_ok", "mv_remove_err", "mv_remove_cancelled"}
    /\ registry' = Without(registry, th[t].id)
    /\ issued' = Forget(issued, th[t].id)
    /\ lastMv' = [lastMv EXCEPT ![t] = MvReturn(th[t].id, MvOutcome(th[t].pc), registry')]
    /\ lock' = "free"
    /\ th' = [th EXCEPT ![t] = IdleThread]
    /\ UNCHANGED <<platform, UUID, cancelledToks, nextTok, poisoned, calls, lastCancel>>
    /\ UNCHANGED <<batchVars, binVars, measVars, extVars>>

\* linux/fs.rs 426-433: clean_up of a batch that registered `id`
clean_up(t) ==
    /\ CanCall(t) /\ platform = "linux"
    /\ calls' = calls + 1
    /\ \E id \in DOMAIN registry :
          IF CanTryLock
          THEN th' = [th EXCEPT ![t] = [IdleThread EXCEPT !.pc = "clean_up_locked", !.id = id]] /\ lock' = t
          ELSE UNCHANGED <<th, lock>>
    /\ UNCHANGED <<platform, UUID, registry, cancelledToks, nextTok, poisoned, issued,
                   lastCancel, lastMv>>
    /\ UNCHANGED <<batchVars, binVars, measVars, extVars>>

\* linux/fs.rs 430-432
clean_up_locked(t) ==
    /\ th[t].pc = "clean_up_locked"
    /\ registry' = Without(registry, th[t].id)
    /\ issued' = Forget(issued, th[t].id)
    /\ lock' = "free"
    /\ th' = [th EXCEPT ![t] = IdleThread]
    /\ UNCHANGED <<platform, UUID, cancelledToks, nextTok, poisoned, calls, lastCancel, lastMv>>
    /\ UNCHANGED <<batchVars, binVars, measVars, extVars>>

\* ------------------------------------------------------- the recycle bin
\* linux/fs.rs 504-660 and windows/fs.rs 543-681.  A trash entry has the name of
\* its trash-internal object, its original path and its deletion time.
OSes == {"linux", "windows"}

Paths == {"p", "q"}

\* the clock's last tick
MaxTime == 2

\* files moved to the trash in one run
MaxTrashed == 3

Times == 1..MaxTime

Entry(n, p, d) == [name |-> n, orig_path |-> p, date |-> d]

BinInit ==
    /\ os \in OSes
    /\ trashed = {}
    /\ files = [p \in Paths |-> 0]
    /\ clock = 1
    /\ nextName = 1
    /\ last = <<>>

\* the clock advances
Tick ==
    /\ last = <<>> /\ clock < MaxTime
    /\ clock' = clock + 1
    /\ last' = <<>>
    /\ UNCHANGED <<os, trashed, files, nextName>>
    /\ UNCHANGED <<batchVars, regVars, measVars, extVars>>

\* linux/fs.rs 472-475, windows trash: the file at p goes to the bin, stamped with the time
trash(p) ==
    /\ last = <<>> /\ p \in DOMAIN files /\ nextName <= MaxTrashed
    /\ trashed' = trashed \cup {Entry(nextName, p, clock)}
    /\ files' = [q \in DOMAIN files \ {p} |-> files[q]]
    /\ nextName' = nextName + 1
    /\ last' = <<>>
    /\ UNCHANGED <<os, clock>>
    /\ UNCHANGED <<batchVars, regVars, measVars, extVars>>

\* a file is created again at a path whose file was trashed
Create(p) ==
    /\ last = <<>> /\ p \notin DOMAIN files
    /\ files' = [q \in DOMAIN files \cup {p} |-> IF q = p THEN 0 ELSE files[q]]
    /\ last' = <<>>
    /\ UNCHANGED <<os, trashed, clock, nextName>>
    /\ UNCHANGED <<batchVars, regVars, measVars, extVars>>

\* an entry enumerated later always replaces the one kept
LastWins(old, date) == TRUE

\* linux/fs.rs 563, windows/fs.rs 580: whether an entry replaces the one kept for its path
Newer(old, date) == old.date < date

\* linux/fs.rs 551-583, windows/fs.rs 563-592: the fold over the enumeration that
\* keeps, per requested path, one entry
RECURSIVE Collect(_, _, _)
Collect(order, file_paths, map) ==
    IF order = <<>> THEN map
    ELSE LET e == Head(order)
             keep == /\ e.orig_path \in file_paths
                     /\ (e.orig_path \in DOMAIN map => Newer(map[e.orig_path], e.date))
         IN Collect(Tail(order), file_paths,
                    IF keep
                    THEN [q \in DOMAIN map \cup {e.orig_path} |-> IF q = e.orig_path THEN e ELSE map[q]]
                    ELSE map)

\* the map's values
Values(map) == {map[q] : q \in DOMAIN map}

\* linux/fs.rs 600, windows/fs.rs 624: targets collected into a HashMap path -> time;
\* of two targets with one path the later one stays
RECURSIVE Args(_)
Args(targets) ==
    IF targets = <<>> THEN <<>>
    ELSE LET t == targets[Len(targets)]
             rest == Args(SubSeq(targets, 1, Len(targets) - 1))
         IN [q \in DOMAIN rest \cup {t.original_path} |->
                IF q = t.original_path THEN t.deleted_time_ms ELSE rest[q]]

\* a match on the path alone
MatchesPath(args, e) == e.orig_path \in DOMAIN args

\* linux/fs.rs 649, windows/fs.rs 650: the exact match on path and time
Matches(args, e) == e.orig_path \in DOMAIN args /\ args[e.orig_path] = e.date

\* linux/fs.rs 637-660: the matching entries in a HashMap keyed by the original path
RECURSIVE find_items_in_recycle_bin(_, _, _)
find_items_in_recycle_bin(children, args, items) ==
    IF children = <<>> THEN items
    ELSE LET e == Head(children)
         IN find_items_in_recycle_bin(Tail(children), args,
                IF Matches(args, e)
                THEN [q \in DOMAIN items \cup {e.orig_path} |-> IF q = e.orig_path THEN e ELSE items[q]]
                ELSE items)

\* windows/fs.rs 640-655: every matching entry is pushed onto the list
MatchingItems(children, args) == {children[i] : i \in {j \in 1..Len(children) : Matches(args, children[j])}}

Target(p, d) == [original_path |-> p, deleted_time_ms |-> d]

\* the target lists handed to undelete_by_time: one target or two
TargetLists ==
    LET T == {Target(p, d) : p \in Paths, d \in Times}
    IN {<<a>> : a \in T} \cup {<<a, b>> : a \in T, b \in T}

\* restoring moves the trash object back to its original path, overwriting
Restored(f, sel) ==
    [q \in DOMAIN f \cup {e.orig_path : e \in sel} |->
        IF \E e \in sel : e.orig_path = q THEN (CHOOSE e \in sel : e.orig_path = q).name ELSE f[q]]

\* linux/fs.rs 585-592, 603-610 (each move_ with `?`) and windows/fs.rs 594-615,
\* 659-680 (one InvokeCommand whose error is dropped): the native restore of the
\* selected entries.  When it fails, only part of the selection is restored.
Restore(op, given, sel, ok) ==
    \E done \in (IF ok THEN {sel} ELSE SUBSET sel \ {sel}) :
        /\ last = <<>>
        /\ trashed' = trashed \ done
        /\ files' = Restored(files, done)
        /\ last' = <<[op |-> op, given |-> given, before |-> trashed,
                      restored |-> done, io_ok |-> ok,
                      ret |-> IF ok \/ os = "windows" THEN "Ok" ELSE "Err"]>>
        /\ UNCHANGED <<os, clock, nextName>>
        /\ UNCHANGED <<batchVars, regVars, measVars, extVars>>

\* whether the native restore succeeds; nothing selected means no native call
Outcomes(sel) == IF sel = {} THEN {TRUE} ELSE BOOLEAN

\* the caller has the result of the call
Returned ==
    /\ last # <<>>
    /\ last' = <<>>
    /\ UNCHANGED <<os, trashed, files, clock, nextName>>
    /\ UNCHANGED <<batchVars, regVars, measVars, extVars>>

\* linux/fs.rs 544-595, windows/fs.rs 543-618
undelete ==
    /\ last = <<>>
    /\ \E file_paths \in SUBSET Paths \ {{}} :
          \E sel \in {Values(Collect(order, file_paths, <<>>)) : order \in Orders(trashed)} :
              \E ok \in Outcomes(sel) : Restore("undelete", file_paths, sel, ok)

\* linux/fs.rs 598-616 with 637-660, windows/fs.rs 621-681
undelete_by_time ==
    /\ last = <<>>
    /\ \E targets \in TargetLists :
          \E sel \in {IF os = "linux"
                      THEN Values(find_items_in_recycle_bin(order, Args(targets), <<>>))
                      ELSE MatchingItems(order, Args(targets)) : order \in Orders(trashed)} :
              \E ok \in Outcomes(sel) : Restore("undelete_by_time", targets, sel, ok)

\* linux/fs.rs 619-635 with 637-660: the selected entries are deleted from the bin
\* one by one, each delete with `?`; when one fails only part of them is gone
delete_from_recycle_bin ==
    /\ last = <<>> /\ os = "linux"
    /\ \E targets \in TargetLists :
          \E sel \in {Values(find_items_in_recycle_bin(order, Args(targets), <<>>)) :
                         order \in Orders(trashed)} :
              \E ok \in Outcomes(sel) :
                  \E done \in (IF ok THEN {sel} ELSE SUBSET sel \ {sel}) :
                      /\ trashed' = trashed \ done
                      /\ last' = <<[op |-> "delete_from_recycle_bin", given |-> targets,
                                    before |-> trashed, restored |-> done, io_ok |-> ok,
                                    ret |-> IF ok THEN "Ok" ELSE "Err"]>>
    /\ UNCHANGED <<os, files, clock, nextName>>
    /\ UNCHANGED <<batchVars, regVars, measVars, extVars>>

\* ------------------------------------------------------------ win mv_bulk
\* win.rs 80-137 and 217-256.  The sources are files of sizes bulk.sizes, moved one
\* after the other with MoveFileWithProgressW, which calls move_files_progress
\* with the bytes of the current file transferred so far.
SizeLists == UNION {[1..n -> 1..MaxSize] : n \in 1..MaxFiles}

RECURSIVE Sum(_)
Sum(sq) == IF sq = <<>> THEN 0 ELSE Head(sq) + Sum(Tail(sq))

\* win.rs 25
PROGRESS_CANCEL == 1

\* win.rs 92-111: total is the sum of the sources' sizes, prev and processed are 0
BulkInit ==
    /\ bulk \in {[sizes |-> sz, i |-> 1, pc |-> "loop", cur |-> 0, first |-> TRUE,
                   token |-> 0, called |-> {}, moved |-> {}, stopped |-> 0,
                   bytes |-> 0, ret |-> ""] : sz \in SizeLists}
    /\ data = [total |-> Sum(bulk.sizes), prev |-> 0, processed |-> 0]

\* win.rs 113-125 and 136: the next source's MoveFileWithProgressW is called, or the
\* loop is over and the call returns Ok
MoveFileWithProgressW ==
    /\ bulk.pc = "loop"
    /\ IF bulk.i <= Len(bulk.sizes)
       THEN bulk' = [bulk EXCEPT !.pc = "moving", !.cur = 0, !.first = TRUE,
                                 !.called = @ \cup {bulk.i}]
       ELSE bulk' = [bulk EXCEPT !.pc = "returned", !.ret = "Ok"]
    /\ UNCHANGED data
    /\ UNCHANGED <<batchVars, regVars, binVars, measVars, gioVars, copyVars, procVars>>

\* win.rs 231-234: the callback's accounting
Accounted(d, totalbytestransferred) ==
    [d EXCEPT !.processed = IF totalbytestransferred - d.prev > 0
                            THEN @ + (totalbytestransferred - d.prev) ELSE @,
              !.prev = totalbytestransferred]

\* win.rs 217-249: a progress callback of the current file; totalbytestransferred
\* never decreases within a file.  The callback returns the token's value, and
\* PROGRESS_CANCEL makes the native move end with the cancel error.
move_files_progress ==
    /\ bulk.pc = "moving"
    /\ \E t \in bulk.cur..bulk.sizes[bulk.i] :
          /\ data' = Accounted(data, t)
          /\ bulk' = [bulk EXCEPT !.cur = t, !.first = FALSE,
                                  !.bytes = @ + (t - bulk.cur),
                                  !.pc = IF bulk.token = PROGRESS_CANCEL THEN "aborted" ELSE @]
    /\ UNCHANGED <<batchVars, regVars, binVars, measVars, gioVars, copyVars, procVars>>

\* win.rs 27: the error code of a move that its progress routine cancelled
CANCEL_ERROR_CODE == 1235

\* the error codes of a move that failed for another reason (5: access denied)
OtherErrorCodes == {5}

\* win.rs 154-164: Err(message), Ok(false) or Ok(true)
handle_move_error(code, treat_cancel_as_error) ==
    IF code # CANCEL_ERROR_CODE THEN "Err"
    ELSE IF treat_cancel_as_error /\ code # CANCEL_ERROR_CODE THEN "false"
    ELSE "true"

\* win.rs 128-133: the native move of the current file ended with an error: the
\* cancel error after a callback returned PROGRESS_CANCEL, or another error at any
\* time; `?` returns an Err, otherwise `done` decides on the loop
MoveFailed ==
    /\ bulk.pc \in {"moving", "aborted"}
    /\ \E code \in IF bulk.pc = "aborted" THEN {CANCEL_ERROR_CODE} ELSE OtherErrorCodes :
          LET done == handle_move_error(code, TRUE)
              stop == IF bulk.stopped = 0 THEN bulk.i ELSE bulk.stopped
          IN bulk' = CASE done = "Err" -> [bulk EXCEPT !.pc = "returned", !.ret = "Err"]
                       [] done = "false" -> [bulk EXCEPT !.pc = "returned", !.ret = "Ok",
                                                         !.stopped = stop]
                       [] done = "true" -> [bulk EXCEPT !.pc = "loop", !.i = @ + 1,
                                                        !.stopped = stop]
    /\ UNCHANGED data
    /\ UNCHANGED <<batchVars, regVars, binVars, measVars, gioVars, copyVars, procVars>>

\* win.rs 127 and 139-152: the native move of the current file succeeds after its
\* last callback reported the file's size; move_fallback finds the source gone and
\* returns true
MoveEnds ==
    /\ bulk.pc = "moving" /\ ~bulk.first /\ bulk.cur = bulk.sizes[bulk.i]
    /\ bulk' = [bulk EXCEPT !.moved = @ \cup {bulk.i}, !.i = @ + 1, !.pc = "loop"]
    /\ UNCHANGED data
    /\ UNCHANGED <<batchVars, regVars, binVars, measVars, gioVars, copyVars, procVars>>

\* win.rs 251-256: cancel(id) sets the token of the call to PROGRESS_CANCEL
BulkCancel ==
    /\ bulk.pc # "returned" /\ bulk.token = 0
    /\ bulk' = [bulk EXCEPT !.token = PROGRESS_CANCEL]
    /\ UNCHANGED data
    /\ UNCHANGED <<batchVars, regVars, binVars, measVars, gioVars, copyVars, procVars>>

BulkNext ==
    \/ MoveFileWithProgressW
    \/ move_files_progress
    \/ MoveFailed
    \/ MoveEnds
    \/ BulkCancel

\* ------------------------------------------- gio mv / mv_with_progress
\* One call of cancellable_move (gio.rs 36-71).  The file system holds the two
\* files of the call: "none" (absent), "new" (the source's content), "old" (what
\* dest held before the call) or "partial" (dest while the copy is writing it).
GioInit ==
    /\ gfs \in {[source |-> "new", dest |-> d] : d \in {"none", "old"}}
    /\ gcall \in {[pc |-> "copy", size |-> n, written |-> 0, handler |-> h, id |-> i,
                   token |-> FALSE, progress |-> <<>>, e |-> "", ret |-> "",
                   message |-> "", before |-> gfs] :
                      n \in 1..MaxSize, h \in BOOLEAN, i \in BOOLEAN}

\* gio.rs 49: source.copy writes the next byte of dest (G_FILE_COPY_OVERWRITE
\* replaces what dest held) and, with a handler, reports the bytes written
GioCopyWrites ==
    /\ gcall.pc = "copy" /\ gcall.written < gcall.size
    /\ gfs' = [gfs EXCEPT !.dest = IF gcall.written + 1 = gcall.size THEN "new" ELSE "partial"]
    /\ gcall' = [gcall EXCEPT !.written = @ + 1,
                              !.progress = IF gcall.handler
                                           THEN <<gcall.written + 1, gcall.size>> ELSE @]
    /\ UNCHANGED <<batchVars, regVars, binVars, measVars, bulkVars, copyVars, procVars>>

\* gio.rs 49-50: source.copy returns Ok after the last byte
GioCopyOk ==
    /\ gcall.pc = "copy" /\ gcall.written = gcall.size
    /\ gcall' = [gcall EXCEPT !.pc = "copied"]
    /\ UNCHANGED gfs
    /\ UNCHANGED <<batchVars, regVars, binVars, measVars, bulkVars, copyVars, procVars>>

\* gio.rs 49 and 60: source.copy returns an error: Cancelled once the token is
\* cancelled, or another error at any point of the copy (before dest is opened
\* or between two writes)
GioCopyErr ==
    /\ gcall.pc = "copy"
    /\ \E e \in {"Cancelled", "Failed"} :
          /\ e = "Cancelled" => gcall.token
          /\ gcall' = [gcall EXCEPT !.pc = "failed", !.e = e]
    /\ UNCHANGED gfs
    /\ UNCHANGED <<batchVars, regVars, binVars, measVars, bulkVars, copyVars, procVars>>

\* gio.rs 51-59: source.delete, `?` on its error, then the id is released
GioSourceDelete ==
    /\ gcall.pc = "copied"
    /\ \/ /\ gfs' = [gfs EXCEPT !.source = "none"]
          /\ gcall' = [gcall EXCEPT !.pc = "returned", !.ret = "Ok"]
       \/ /\ UNCHANGED gfs
          /\ gcall' = [gcall EXCEPT !.pc = "returned", !.ret = "Err", !.message = "delete"]
    /\ UNCHANGED <<batchVars, regVars, binVars, measVars, bulkVars, copyVars, procVars>>

\* gio.rs 60-67: after a failed copy dest is deleted if it exists, `?` on the
\* error of that delete; then the copy's error is returned unless it is Cancelled
GioCopyFailed ==
    /\ gcall.pc = "failed"
    /\ IF gfs.dest # "none"
       THEN \/ /\ gfs' = [gfs EXCEPT !.dest = "none"]
               /\ gcall' = [gcall EXCEPT !.pc = "returned",
                               !.ret = IF gcall.e # "Cancelled" THEN "Err" ELSE "Ok",
                               !.message = IF gcall.e # "Cancelled" THEN gcall.e ELSE @]
            \/ /\ UNCHANGED gfs
               /\ gcall' = [gcall EXCEPT !.pc = "returned", !.ret = "Err", !.message = "delete"]
       ELSE /\ UNCHANGED gfs
            /\ gcall' = [gcall EXCEPT !.pc = "returned",
                               !.ret = IF gcall.e # "Cancelled" THEN "Err" ELSE "Ok",
                               !.message = IF gcall.e # "Cancelled" THEN gcall.e ELSE @]
    /\ UNCHANGED <<batchVars, regVars, binVars, measVars, bulkVars, copyVars, procVars>>

\* gio.rs 82-88: cancel(id) cancels the token of a call that was given an id
GioCancel ==
    /\ gcall.pc = "copy" /\ gcall.id /\ ~gcall.token
    /\ gcall' = [gcall EXCEPT !.token = TRUE]
    /\ UNCHANGED gfs
    /\ UNCHANGED <<batchVars, regVars, binVars, measVars, bulkVars, copyVars, procVars>>

GioNext ==
    \/ GioCopyWrites
    \/ GioCopyOk
    \/ GioCopyErr
    \/ GioSourceDelete
    \/ GioCopyFailed
    \/ GioCancel

\* --------------------------------------------- linux fs::copy and fs::mv
\* One call of copy(from, to) or mv(from, to) (linux/fs.rs 226-237, 268-279).  The
\* file system holds `from` and `to/<name>`: a node is absent, a file with a
\* content, or a directory with the contents of its children (files, numbered
\* from 1).  "new" is content of the source, "old" what was under `to` before.
NoNode == [kind |-> "none", content |-> "", children |-> <<>>]

FileOf(c) == [kind |-> "file", content |-> c, children |-> <<>>]

DirOf(names, c) == [kind |-> "dir", content |-> "", children |-> [n \in names |-> c]]

\* the top-level source of the call, as opposed to a child of a source directory
Top == 0

CopyInit ==
    /\ cfs \in {[from |-> FileOf("new"), to |-> d] : d \in {NoNode, FileOf("old")}}
          \cup {[from |-> DirOf(1..n, "new"), to |-> d] :
                    n \in 0..MaxFiles, d \in {NoNode} \cup {DirOf(S, "old") : S \in SUBSET (1..MaxFiles)}}
    /\ cfs.to.kind = "dir" => DOMAIN cfs.to.children \subseteq DOMAIN cfs.from.children
    /\ ccall \in {[op |-> o, pc |-> "start", chan |-> <<>>, closed |-> FALSE,
                   pending |-> {}, ret |-> "", before |-> cfs] : o \in {"copy", "mv"}}

\* smol try_send on the bounded(1) channel: dropped when it is full or closed
try_send(c, result) ==
    IF c.closed \/ Len(c.chan) >= 1 THEN c ELSE [c EXCEPT !.chan = Append(@, result)]

\* linux/fs.rs 415-424: an Err is sent and the channel closed, result false; an
\* Ok is sent, result true
fs_handle_result(c, result) ==
    IF result = "Err" THEN [try_send(c, result) EXCEPT !.closed = TRUE] ELSE try_send(c, result)

handle_result_returns(result) == result # "Err"

\* linux/fs.rs 364-383 for a child n of the source directory: st is the pair of
\* the destination directory and the call; failing are the children whose delete
\* fails
copy_child(st, n, failing) ==
    IF st.to.kind = "dir" /\ n \in DOMAIN st.to.children
    THEN LET result == IF n \in failing THEN "Err" ELSE "Ok"
             sent == fs_handle_result(st.call, result)
         IN IF handle_result_returns(result)
            THEN [to |-> [st.to EXCEPT !.children =
                              [k \in DOMAIN st.to.children \ {n} |-> st.to.children[k]]],
                  call |-> sent]
            ELSE [to |-> st.to, call |-> [sent EXCEPT !.pending = @ \cup {n}]]
    ELSE [st EXCEPT !.call.pending = @ \cup {n}]

\* linux/fs.rs 403-412: the children of the source directory in turn
RECURSIVE copy_children(_, _, _, _)
copy_children(st, n, count, failing) ==
    IF n > count THEN st ELSE copy_children(copy_child(st, n, failing), n + 1, count, failing)

\* linux/fs.rs 268-271, 359-413: copy calls execute_copy, which runs up to its
\* asynchronous native calls.  A file: an existing to/<name> is deleted first, and
\* the result of the delete goes through handle_result.  A directory: a missing
\* to/<name> is made, and the result goes through handle_result; after a failed
\* make_directory the unwraps of 396-400 panic or not.
fs_copy ==
    /\ ccall.pc = "start" /\ ccall.op = "copy"
    /\ IF cfs.from.kind = "file"
       THEN IF cfs.to.kind # "none"
            THEN \E result \in {"Ok", "Err"} :
                    IF handle_result_returns(result)
                    THEN /\ cfs' = [cfs EXCEPT !.to = NoNode]
                         /\ ccall' = [fs_handle_result(ccall, result) EXCEPT !.pc = "await"]
                    ELSE /\ UNCHANGED cfs
                         /\ ccall' = [fs_handle_result(ccall, result) EXCEPT
                                         !.pc = "await", !.pending = {Top}]
            ELSE /\ UNCHANGED cfs
                 /\ ccall' = [ccall EXCEPT !.pc = "await", !.pending = {Top}]
       ELSE IF cfs.to.kind = "none"
            THEN \E result \in {"Ok", "Err"} :
                    IF handle_result_returns(result)
                    THEN /\ cfs' = [cfs EXCEPT !.to = DirOf({}, "")]
                         /\ ccall' = [fs_handle_result(ccall, result) EXCEPT !.pc = "await"]
                    ELSE /\ UNCHANGED cfs
                         /\ \/ ccall' = [fs_handle_result(ccall, result) EXCEPT !.pc = "panicked"]
                            \/ ccall' = [copy_children([to |-> cfs.to,
                                                        call |-> fs_handle_result(ccall, result)],
                                                       1, Len(cfs.from.children), {}).call
                                            EXCEPT !.pc = "await"]
            ELSE \E failing \in SUBSET DOMAIN cfs.to.children :
                    LET st == copy_children([to |-> cfs.to, call |-> ccall],
                                            1, Len(cfs.from.children), failing)
                    IN /\ cfs' = [cfs EXCEPT !.to = st.to]
                       /\ ccall' = [st.call EXCEPT !.pc = "await"]
    /\ UNCHANGED <<batchVars, regVars, binVars, measVars, bulkVars, gioVars, procVars>>

\* linux/fs.rs 226-229, 336-357: mv calls execute_move: an existing to/<name> is
\* deleted first, and the result of the delete goes through handle_result
fs_mv ==
    /\ ccall.pc = "start" /\ ccall.op = "mv"
    /\ IF cfs.to.kind # "none"
       THEN \E result \in {"Ok", "Err"} :
               IF handle_result_returns(result)
               THEN /\ cfs' = [cfs EXCEPT !.to = NoNode]
                    /\ ccall' = [fs_handle_result(ccall, result) EXCEPT !.pc = "await"]
               ELSE /\ UNCHANGED cfs
                    /\ ccall' = [fs_handle_result(ccall, result) EXCEPT
                                    !.pc = "await", !.pending = {Top}]
       ELSE /\ UNCHANGED cfs
            /\ ccall' = [ccall EXCEPT !.pc = "await", !.pending = {Top}]
    /\ UNCHANGED <<batchVars, regVars, binVars, measVars, bulkVars, gioVars, procVars>>

\* the file system after the native call n succeeded
AsyncEffect(f, op, n) ==
    CASE op = "mv" -> [from |-> NoNode, to |-> f.from]
      [] op = "copy" /\ n = Top -> [f EXCEPT !.to = f.from]
      [] OTHER -> [f EXCEPT !.to.children =
                      [k \in DOMAIN f.to.children \cup {n} |->
                          IF k = n THEN f.from.children[n] ELSE f.to.children[k]]]

\* the native call n cannot succeed: without G_FILE_COPY_OVERWRITE (345, 372) the
\* target must not exist, and the directory of a child's target must
NativeMustFail(f, n) ==
    IF n = Top THEN f.to.kind # "none"
    ELSE f.to.kind # "dir" \/ n \in DOMAIN f.to.children

\* linux/fs.rs 345-356, 372-383: the callback of move_async / copy_async hands the
\* result to handle_result; it runs when the main loop gets to it, also after the
\* call has returned
NativeCallback ==
    /\ \E n \in ccall.pending, result \in {"Ok", "Err"} :
          /\ result = "Ok" => ~NativeMustFail(cfs, n)
          /\ cfs' = IF result = "Ok" THEN AsyncEffect(cfs, ccall.op, n) ELSE cfs
          /\ ccall' = [fs_handle_result(ccall, result) EXCEPT !.pending = @ \ {n}]
    /\ UNCHANGED <<batchVars, regVars, binVars, measVars, bulkVars, gioVars, procVars>>

\* linux/fs.rs 231-235, 273-277: receiver.recv().await returns the next result, or
\* fails on a closed and empty channel, which is reported as Ok
fs_recv ==
    /\ ccall.pc = "await"
    /\ ccall.chan # <<>> \/ ccall.closed
    /\ ccall' = [ccall EXCEPT !.pc = "returned",
                              !.ret = IF ccall.chan # <<>> THEN Head(ccall.chan) ELSE "Ok",
                              !.chan = IF ccall.chan # <<>> THEN Tail(@) ELSE @]
    /\ UNCHANGED cfs
    /\ UNCHANGED <<batchVars, regVars, binVars, measVars, bulkVars, gioVars, procVars>>

CopyNext ==
    \/ fs_copy
    \/ fs_mv
    \/ NativeCallback
    \/ fs_recv

\* --------------------------------------- process::spawn and process::kill
\* Two spawn calls with cancellation tokens of their own, and kill calls from other
\* threads.  plock is "free", "poisoned" (free after a panic of its holder) or the
\* token whose waiting task holds the Mutex.
Tokens == {"a", "b"}

ProcInit ==
    /\ CHILDREN = <<>>
    /\ plock = "free"
    /\ procs = [t \in Tokens |-> [pc |-> "idle", child |-> "none", ret |-> ""]]
    /\ kills = <<>>

\* process.rs 54-71: the command is built and SharedChild::spawn starts the child
spawn(t) ==
    /\ procs[t].pc = "idle"
    /\ procs' = [procs EXCEPT ![t] = [@ EXCEPT !.pc = "spawned", !.child = "running"]]
    /\ UNCHANGED <<CHILDREN, plock, kills>>
    /\ UNCHANGED <<batchVars, regVars, binVars, measVars, bulkVars, gioVars, copyVars>>

\* process.rs 72-76: CHILDREN.lock().unwrap().insert(token, child), then the waiting
\* task is spawned; lock() waits for the Mutex and unwrap panics when it is poisoned
spawn_insert(t) ==
    /\ procs[t].pc = "spawned"
    /\ plock \in {"free", "poisoned"}
    /\ IF plock = "poisoned"
       THEN /\ procs' = [procs EXCEPT ![t] = [@ EXCEPT !.pc = "panicked"]]
            /\ UNCHANGED CHILDREN
       ELSE /\ CHILDREN' = [k \in DOMAIN CHILDREN \cup {t} |-> "child"]
            /\ procs' = [procs EXCEPT ![t] = [@ EXCEPT !.pc = "inserted"]]
    /\ UNCHANGED <<plock, kills>>
    /\ UNCHANGED <<batchVars, regVars, binVars, measVars, bulkVars, gioVars, copyVars>>

\* process.rs 77-79: the task takes the Mutex, looks the child up (unwrap: a panic
\* with the Mutex held poisons it) and enters child.wait() with the Mutex held
spawn_task(t) ==
    /\ procs[t].pc = "inserted"
    /\ plock \in {"free", "poisoned"}
    /\ IF plock = "poisoned"
       THEN /\ procs' = [procs EXCEPT ![t] = [@ EXCEPT !.pc = "panicked"]]
            /\ UNCHANGED plock
       ELSE IF t \in DOMAIN CHILDREN
            THEN /\ procs' = [procs EXCEPT ![t] = [@ EXCEPT !.pc = "waiting"]]
                 /\ plock' = t
            ELSE /\ procs' = [procs EXCEPT ![t] = [@ EXCEPT !.pc = "panicked"]]
                 /\ plock' = "poisoned"
    /\ UNCHANGED <<CHILDREN, kills>>
    /\ UNCHANGED <<batchVars, regVars, binVars, measVars, bulkVars, gioVars, copyVars>>

\* the child ends by itself
ChildExits(t) ==
    /\ procs[t].child = "running"
    /\ procs' = [procs EXCEPT ![t] = [@ EXCEPT !.child = "exited"]]
    /\ UNCHANGED <<CHILDREN, plock, kills>>
    /\ UNCHANGED <<batchVars, regVars, binVars, measVars, bulkVars, gioVars, copyVars>>

\* process.rs 79-113: child.wait() returns once the child has ended; the output is
\* read, the token removed, the Mutex released and the result returned
spawn_wait(t) ==
    /\ procs[t].pc = "waiting"
    /\ procs[t].child \in {"exited", "killed"}
    /\ CHILDREN' = [k \in DOMAIN CHILDREN \ {t} |-> CHILDREN[k]]
    /\ plock' = "free"
    /\ procs' = [procs EXCEPT ![t] = [@ EXCEPT !.pc = "returned",
                     !.ret = IF procs[t].child = "exited" THEN "Ok" ELSE "Err"]]
    /\ UNCHANGED kills
    /\ UNCHANGED <<batchVars, regVars, binVars, measVars, bulkVars, gioVars, copyVars>>

\* process.rs 129-138: kill(token) from another thread: with the Mutex at hand
\* (try_lock) a child in the table is killed and removed; otherwise nothing happens;
\* Ok is returned
kill(t) ==
    /\ Len(kills) < MaxKills
    /\ LET acts == plock = "free" /\ t \in DOMAIN CHILDREN
       IN /\ CHILDREN' = IF acts THEN [k \in DOMAIN CHILDREN \ {t} |-> CHILDREN[k]]
                          ELSE CHILDREN
          /\ procs' = IF acts /\ procs[t].child = "running"
                      THEN [procs EXCEPT ![t] = [@ EXCEPT !.child = "killed"]] ELSE procs
          /\ kills' = Append(kills, [token |-> t, running |-> procs[t].child = "running",
                                     pc |-> procs[t].pc, killed |-> acts, ret |-> "Ok"])
    /\ UNCHANGED plock
    /\ UNCHANGED <<batchVars, regVars, binVars, measVars, bulkVars, gioVars, copyVars>>

ProcNext ==
    \E t \in Tokens :
        \/ spawn(t)
        \/ spawn_insert(t)
        \/ spawn_task(t)
        \/ ChildExits(t)
        \/ spawn_wait(t)
        \/ kill(t)

\* ------------------------------------------------------ the specifications
\* Each specification runs one part of the program and leaves the others at rest.
BatchIdle ==
    /\ operation = "Copy" /\ froms = <<>> /\ fs = <<>> /\ cancelled = FALSE
    /\ pc = "done" /\ idx = 1 /\ work = <<>> /\ needs_confirm = <<>> /\ deferred_dest = <<>>
    /\ replace_all = FALSE /\ cidx = 1 /\ inflight = <<>> /\ tx = <<>> /\ pstream = <<>>
    /\ usage_ch = <<>> /\ usages = DiskUsages(0, 0) /\ cpc = "closed" /\ turn = "idle"
    /\ extraEvents = 0 /\ pendingDeletes = {} /\ prompts = <<>>
    /\ replaceAllAt = 0 /\ skipAllAt = 0 /\ forced = {}
    /\ dialogs = <<>> /\ started = <<>> /\ failed = <<>> /\ interrupted = {}
    /\ handled = <<>>
    /\ paused = FALSE /\ pause_ch = <<>> /\ blocked = FALSE /\ clicks = 0 /\ startedPaused = FALSE

RegIdle ==
    /\ platform = "gio" /\ UUID = Zero /\ registry = <<>> /\ cancelledToks = {} /\ nextTok = 1
    /\ lock = "free" /\ poisoned = FALSE /\ th = [t \in Threads |-> IdleThread]
    /\ calls = MaxCalls /\ issued = <<>>
    /\ lastCancel = [t \in Threads |-> <<>>] /\ lastMv = [t \in Threads |-> <<>>]

BinIdle ==
    /\ os = "linux" /\ trashed = {} /\ files = <<>> /\ clock = MaxTime
    /\ nextName = MaxTrashed + 1 /\ last = <<>>

RegNext ==
    \E t \in Threads :
        \/ reserve_fetch(t) \/ reserve_lock(t) \/ reserve_insert(t)
        \/ register_cancellable(t) \/ register_lock(t) \/ register_insert(t)
        \/ cancel(t) \/ cancel_locked(t)
        \/ mv(t) \/ mv_lock(t) \/ mv_get(t) \/ progress_lookup(t) \/ progress_return(t)
        \/ mv_copy(t) \/ mv_remove(t)
        \/ clean_up(t) \/ clean_up_locked(t)

BinNext ==
    \/ Tick
    \/ \E p \in Paths : trash(p) \/ Create(p)
    \/ undelete
    \/ undelete_by_time
    \/ Returned
    \/ delete_from_recycle_bin

BulkIdle == bulk = <<>> /\ data = <<>>

GioIdle == gfs = <<>> /\ gcall = <<>>

CopyIdle == cfs = <<>> /\ ccall = <<>>

ProcIdle == CHILDREN = <<>> /\ plock = "free" /\ procs = <<>> /\ kills = <<>>

ExtIdle == BulkIdle /\ GioIdle /\ CopyIdle /\ ProcIdle

\* ------------------------------------------------- measure_size on its own
MeasIdle == entries = <<>> /\ disk = <<>> /\ vanishing = {} /\ measured = <<>>

MeasInit == entries \in SourceLists /\ disk = BaseFs /\ vanishing = {} /\ measured = <<>>

\* a file or directory below the source root is deleted by someone else before the
\* measurement starts
Disappear ==
    /\ measured = <<>>
    /\ \E p \in Descendants(disk, SrcRoot) : disk' = RemoveTree(disk, p)
    /\ UNCHANGED <<entries, vanishing, measured>>
    /\ UNCHANGED <<batchVars, regVars, binVars, extVars>>

\* fs_ext.rs 190-203: the call runs; `late` are the entries deleted while it runs,
\* after they were listed and before they are measured
MeasureCall ==
    /\ measured = <<>>
    /\ \E late \in SUBSET Descendants(disk, SrcRoot) :
          /\ vanishing' = late
          /\ measured' = <<TryMeasure(disk, {entries[i] : i \in DOMAIN entries}, late)>>
    /\ UNCHANGED <<entries, disk>>
    /\ UNCHANGED <<batchVars, regVars, binVars, extVars>>

MeasNext == Disappear \/ MeasureCall

\* the registry after register_cancellable (fs_ext.rs 49) registered the batch
Registered ==
    /\ platform = "linux" /\ UUID = <<0, 1>> /\ registry = (cancel_id :> 1)
    /\ cancelledToks = {} /\ nextTok = 2 /\ lock = "free" /\ poisoned = FALSE
    /\ th = [t \in Threads |-> IdleThread] /\ issued = <<cancel_id>>
    /\ lastCancel = [t \in Threads |-> <<>>] /\ lastMv = [t \in Threads |-> <<>>]

BatchStart == BatchInit /\ Registered /\ calls = MaxCalls /\ BinIdle /\ MeasIdle /\ ExtIdle

RegStart == RegInit /\ BatchIdle /\ BinIdle /\ MeasIdle /\ ExtIdle

BinStart == BinInit /\ BatchIdle /\ RegIdle /\ MeasIdle /\ ExtIdle

MeasStart == MeasInit /\ BatchIdle /\ RegIdle /\ BinIdle /\ ExtIdle

MeasSpec == MeasStart /\ [][MeasNext]_vars

BatchSpec == BatchStart /\ [][BatchNext]_vars

\* a Copy batch with a user who also clicks the pause button
PauseNext ==
    \/ Measure
    \/ MainPass
    \/ NextChild
    \/ ConflictPass
    \/ Confirm
    \/ ConfirmCancel
    \/ Finish
    \/ NativeProgress
    \/ NativeFinish
    \/ Resume
    \/ RaceCancelled
    \/ AsyncDelete
    \/ Forward
    \/ RecvUsage
    \/ Consume
    \/ Cancel
    \/ PauseRecv
    \/ PauseClick

PauseStart ==
    BatchInit /\ operation = "Copy" /\ Registered /\ calls = MaxCalls /\ BinIdle /\ MeasIdle /\ ExtIdle

PauseSpec == PauseStart /\ [][PauseNext]_vars

\* a Delete or Trash batch while another thread calls cancel with the batch's id
ReleaseNext ==
    \/ Measure
    \/ MainPass
    \/ NextChild
    \/ ConflictPass
    \/ Finish
    \/ NativeFinish
    \/ Resume
    \/ RaceCancelled
    \/ RecvUsage
    \/ Consume
    \/ Cancel
    \/ CancelFromThread
    \/ CancelFromThreadLocked

ReleaseStart ==
    /\ BatchInit /\ operation \in {"Delete", "Trash"}
    /\ Registered /\ calls = 0 /\ BinIdle /\ MeasIdle /\ ExtIdle

ReleaseSpec == ReleaseStart /\ [][ReleaseNext]_vars

\* a Copy or Move batch while another batch writes into the same destination
OverwriteNext ==
    \/ Measure
    \/ MainPass
    \/ NextChild
    \/ ConflictPass
    \/ Confirm
    \/ ConfirmCancel
    \/ Finish
    \/ NativeProgress
    \/ NativeFinish
    \/ Resume
    \/ RaceCancelled
    \/ AsyncDelete
    \/ Forward
    \/ RecvUsage
    \/ Consume
    \/ Cancel
    \/ OtherBatchWrites

OverwriteStart ==
    /\ BatchInit /\ operation \in {"Copy", "Move"} /\ Len(froms) = 1
    /\ Registered /\ calls = MaxCalls /\ BinIdle /\ MeasIdle /\ ExtIdle

OverwriteSpec == OverwriteStart /\ [][OverwriteNext]_vars

BulkStart ==
    BulkInit /\ BatchIdle /\ RegIdle /\ BinIdle /\ MeasIdle /\ GioIdle /\ CopyIdle /\ ProcIdle

BulkSpec == BulkStart /\ [][BulkNext]_vars

GioStart ==
    GioInit /\ BatchIdle /\ RegIdle /\ BinIdle /\ MeasIdle /\ BulkIdle /\ CopyIdle /\ ProcIdle

GioSpec == GioStart /\ [][GioNext]_vars

CopyStart ==
    CopyInit /\ BatchIdle /\ RegIdle /\ BinIdle /\ MeasIdle /\ BulkIdle /\ GioIdle /\ ProcIdle

CopySpec == CopyStart /\ [][CopyNext]_vars

ProcStart ==
    ProcInit /\ BatchIdle /\ RegIdle /\ BinIdle /\ MeasIdle /\ BulkIdle /\ GioIdle /\ CopyIdle

ProcSpec == ProcStart /\ [][ProcNext]_vars

RegSpec == RegStart /\ [][RegNext]_vars

BinSpec == BinStart /\ [][BinNext]_vars

\* ---------------------------------------------- properties of the registry
\* C3: the ids returned by reserve whose registration is still in the registry
\* are pairwise distinct, although the 32-bit counter wraps around
C3_LiveIdsDistinct ==
    \A i, j \in 1..Len(issued) : issued[i] = issued[j] => i = j

\* C9: cancel(id) returns true exactly when the id was in the registry at the
\* moment of the call, and then the token is cancelled, also while another
\* thread is inside a registry operation
C9_CancelReportsPresence ==
    \A t \in Threads :
        lastCancel[t] # <<>> =>
            /\ lastCancel[t][1].ret <=> lastCancel[t][1].present
            /\ lastCancel[t][1].present => lastCancel[t][1].marked

\* C10: when a cancellable move with an id returns, with success, an error or a
\* cancellation, the id is no longer in the registry
C10_MoveReleasesId ==
    \A t \in Threads : lastMv[t] # <<>> => ~lastMv[t][1].registered

\* C19: a cancellable move started with an id that is not in the registry does not
\* panic: no thread ends in a panic (the first panic of a run can only be the
\* lookup of the missing id, later ones are unwraps of the Mutex it poisoned)
C19_MissingIdDoesNotPanic ==
    \A t \in Threads : th[t].pc # "panicked"

\* -------------------------------------------- properties of the recycle bin
Key(e) == <<e.orig_path, e.date>>

Keys(targets) == {<<targets[i].original_path, targets[i].deleted_time_ms>> : i \in 1..Len(targets)}

\* C7: undelete(paths), when the native restore succeeds: for each requested path
\* with entries in the bin exactly one entry is restored, one whose deletion time
\* is the maximum for that path, whatever the enumeration order; entries of that
\* path deleted earlier stay in the bin; nothing else is restored
C7_UndeleteRestoresNewest ==
    last # <<>> /\ last[1].op = "undelete" /\ last[1].io_ok =>
        /\ \A p \in last[1].given :
              LET E == {e \in last[1].before : e.orig_path = p}
                  R == {e \in last[1].restored : e.orig_path = p}
              IN E # {} =>
                    /\ Cardinality(R) = 1
                    /\ R \subseteq E
                    /\ \A r \in R, e \in E : e.date <= r.date
                    /\ \A r \in R : files[p] = r.name
                    /\ \A e \in E : (\E r \in E : e.date < r.date) => e \in trashed
        /\ \A r \in last[1].restored : r.orig_path \in last[1].given /\ r \notin trashed

\* undelete restored the later of two entries of one requested path
C7_Witness ==
    /\ last # <<>> /\ last[1].op = "undelete" /\ last[1].io_ok
    /\ \E e1, e2 \in last[1].before :
          /\ e1.orig_path = e2.orig_path /\ e1.orig_path \in last[1].given
          /\ e1.date < e2.date
          /\ e2 \in last[1].restored /\ e1 \in trashed

\* C8: undelete_by_time restores only entries whose (original path, deletion
\* time) is the key of a request; a call none of whose requests matches exactly
\* restores nothing and returns Ok; a single matched request whose native restore
\* succeeds restores an entry with that key and leaves every other entry in the bin
C8_UndeleteByTimeExact ==
    last # <<>> /\ last[1].op = "undelete_by_time" =>
        LET keys == Keys(last[1].given)
            hits == {e \in last[1].before : Key(e) \in keys}
        IN /\ last[1].restored \subseteq hits
           /\ trashed = last[1].before \ last[1].restored
           /\ hits = {} => last[1].restored = {} /\ last[1].ret = "Ok"
           /\ Len(last[1].given) = 1 /\ hits # {} /\ last[1].io_ok =>
                 /\ last[1].restored # {}
                 /\ \A r \in last[1].restored : files[r.orig_path] \in {h.name : h \in hits}

\* the request (p, t1) restored the t1 entry and left the t2 entry of p in the bin
C8_Witness ==
    /\ last # <<>> /\ last[1].op = "undelete_by_time" /\ Len(last[1].given) = 1
    /\ \E e1, e2 \in last[1].before :
          /\ e1.orig_path = e2.orig_path /\ e1.date < e2.date
          /\ Keys(last[1].given) = {Key(e1)}
          /\ last[1].restored = {e1} /\ e2 \in trashed

\* a call none of whose requests matches an entry of a non-empty bin
C8_WitnessNoMatch ==
    /\ last # <<>> /\ last[1].op = "undelete_by_time" /\ last[1].before # {}
    /\ \A e \in last[1].before : Key(e) \notin Keys(last[1].given)

\* C20: delete_from_recycle_bin(targets), when every native delete succeeds, removes
\* from the bin exactly the entries whose (original path, deletion time) is the key
\* of some target, also when several targets share one original path
C20_DeleteFromBinExact ==
    last # <<>> /\ last[1].op = "delete_from_recycle_bin" /\ last[1].io_ok =>
        trashed = {e \in last[1].before : Key(e) \notin Keys(last[1].given)}

\* what is left of the file system when the entries of `gone` have disappeared
RECURSIVE Remaining(_, _)
Remaining(f, gone) ==
    IF gone = {} THEN f
    ELSE LET p == CHOOSE x \in gone : TRUE
         IN Remaining(RemoveTree(f, p), gone \ {p})

\* C18: measure_size succeeds although entries have disappeared, and its totals are
\* the sums over the entries that remain (a disappeared entry adds nothing)
C18_MeasureToleratesDisappearance ==
    measured # <<>> =>
        LET left == Remaining(disk, vanishing)
            m == MeasureSet(left, {entries[i] : i \in DOMAIN entries} \cap DOMAIN left)
        IN /\ measured[1].ok
           /\ measured[1].size = m.size /\ measured[1].count = m.count

\* ------------------------------------------------- properties of mv_bulk
\* C25: once the move of a source ended because the token was cancelled, no
\* MoveFileWithProgressW call is made for a later source, the later sources are
\* not moved, and the call returns Ok
C25_CancelStopsTheLoop ==
    bulk.stopped # 0 =>
        /\ \A j \in bulk.called \cup bulk.moved : j <= bulk.stopped
        /\ bulk.pc = "returned" => bulk.ret = "Ok"

\* C26: in a call that is not cancelled and meets no error, for every sequence of
\* callbacks in which each file's totalbytestransferred is non-decreasing and ends
\* at the file's size, the processed value handed to the callback is the number of
\* bytes transferred so far over all files, at most total, and total after the
\* last file
C26_ProcessedCountsEveryByte ==
    bulk.token = 0 /\ bulk.ret # "Err" =>
        /\ data.processed = bulk.bytes
        /\ data.processed <= data.total
        /\ bulk.pc = "returned" => data.processed = data.total

\* ----------------------------------------- properties of cancellable_move
\* C27: when the call fails with an error other than a cancellation, the two files
\* are as they were before the call (a dest that existed is still there, the source
\* is in place) and the error returned is the error of the copy
C27_FailedMoveLeavesFiles ==
    gcall.pc = "returned" /\ gcall.e = "Failed" =>
        /\ gfs = gcall.before
        /\ gcall.ret = "Err" /\ gcall.message = gcall.e

\* ------------------------------------- properties of fs::copy and fs::mv
\* C28: once the call has reported Ok and its native calls are over, to/<name>
\* exists with the content of the source, also when it existed before the call and
\* also for a directory whose destination was missing: every child is there
C28_OkMeansCopied ==
    ccall.pc = "returned" /\ ccall.ret = "Ok" /\ ccall.pending = {} =>
        cfs.to = ccall.before.from

\* ------------------------------------------- properties of spawn and kill
\* C29: a kill(token) called while the child of that token is running, once spawn
\* has put it into CHILDREN, terminates the child and takes it out of CHILDREN, and
\* no pending spawn panics
C29_KillTerminatesChild ==
    /\ \A i \in 1..Len(kills) :
          kills[i].running /\ kills[i].pc \in {"inserted", "waiting"} =>
              kills[i].killed /\ kills[i].token \notin DOMAIN CHILDREN
    /\ \A t \in Tokens : procs[t].pc # "panicked"
=============================================================================
